---- MODULE Spec2Model ----
(***************************************************************************)
(* The optimization worker of src/optimizationWorker.js (the first         *)
(* definition of the worker in that file, lines 1-415): the message        *)
(* handler, the evolution loop runEvolution and the genetic operators.     *)
(*                                                                         *)
(* Scheduling.  A web worker has one thread and one event loop: a message  *)
(* posted by the controller waits in the worker's queue until the handler  *)
(* of the previous message has returned.  runEvolution is declared async   *)
(* but contains no await, so the call at line 408 runs the whole evolution *)
(* inside the handler of 'start'.  The model shows the loop step by step   *)
(* (pc), the controller may post at any moment (PostStart, PostStop), and  *)
(* a queued message is handled only when the worker is idle.               *)
(***************************************************************************)
EXTENDS Integers, Sequences, FiniteSets, TLC

VARIABLES
    mailbox,            \* messages posted by the controller, not yet handled
    pc,                 \* position of the worker: "idle" or a place in runEvolution
    isRunning,          \* line 32
    generationCount,    \* line 33
    historyData,        \* line 30
    simulationHelpers,  \* line 31
    population,         \* runEvolution, line 218; computedIn of a member is the generation
                        \* in which its fitness was last assigned (0: not yet)
    newPopulation,      \* runEvolution, line 256
    evalIdx,            \* position of the for-of loop of line 228
    events,             \* messages posted by the current (or last) run, in order
    replayOf,           \* the (wins, losses) the replay of historyData ends with, per individual
    cancelObserved,     \* history: a cancellation check of this run failed
    stopPosted,         \* history: a stop was posted while this run was in progress
    runsEnded,          \* history: a run has ended since the worker was created
    stopsInARow,        \* history: stops handled since the last start was handled (at most 2)
    historyArray,       \* replay: the array historyData, holding the names of its items
    objects,            \* replay: the objects that exist, each named by its place here
    frame,              \* replay: the locals of the current (or last) call of calculateFitness
    fitnessLog,         \* replay: what the calls of calculateFitness returned, in order
    replayPc,           \* replay: "in" while a call of calculateFitness is under way
    helperToggle,       \* replay: payload.helpers.useDynamicTerminalNeighbourCount, line 401
    call                \* helpers: the last call of a helper of shared-logic.js, with its result

vars == <<mailbox, pc, isRunning, generationCount, historyData, simulationHelpers,
          population, newPopulation, evalIdx, events, replayOf, cancelObserved, stopPosted,
          runsEnded, stopsInARow, historyArray, objects, frame, fitnessLog, replayPc,
          helperToggle, call>>

vars_worker == <<mailbox, pc, isRunning, generationCount, historyData, simulationHelpers,
                 population, newPopulation, evalIdx, events, replayOf, cancelObserved,
                 stopPosted, runsEnded, stopsInARow>>

replayVars == <<historyArray, objects, frame, fitnessLog, replayPc, helperToggle, call>>

workerVars == <<pc, isRunning, generationCount, historyData, simulationHelpers,
                population, newPopulation, evalIdx, events, replayOf, cancelObserved>>

-----------------------------------------------------------------------------
(* Bounds of the model *)

\* GA_CONFIG.populationSize (50 in the source), scaled down
populationSize == 2
\* GA_CONFIG.eliteCount (4 in the source), scaled down
eliteCount == 1
\* GA_CONFIG.maxGenerations (100 in the source), scaled down
maxGenerations == 2
\* messages that may wait in the worker's queue at once
MaxMailbox == 1

\* tournamentSize of selectParent (5 in the source), scaled down
tournamentSize == 2

\* the greatest number of items of a replayed history
MaxRecords == 3

\* the greatest number of calls of calculateFitness followed in a replay
MaxCalls == 3

\* the payloads the controller sends with 'start' (each names a history and a
\* helper table)
Payloads == {1, 2}

\* the (wins, losses) a replay of the history may end with
ReplayOutcomes == {<<0, 0>>, <<1, 0>>, <<2, 3>>}

-----------------------------------------------------------------------------
(* Numbers.  The gene arithmetic of createIndividual and mutate is done in    *)
(* JavaScript Numbers (IEEE 754 binary64, round to nearest, ties to even).   *)
(* A natural number of any size is the sequence of its digits in base Base,  *)
(* the least significant first and the last one not 0; a Number x >= 0 is    *)
(* the pair (m, e) with x = m * 2^e.                                         *)

\* bits of the significand of a Number
Precision == 53

\* bits of one digit
DigitBits == 15

Base == 2 ^ DigitBits

RECURSIVE Digits(_)
Digits(n) == IF n = 0 THEN <<>> ELSE <<n % Base>> \o Digits(n \div Base)

\* the value of a small natural number
RECURSIVE NatOf(_)
NatOf(a) == IF a = <<>> THEN 0 ELSE Head(a) + Base * NatOf(Tail(a))

Digit(a, i) == IF i <= Len(a) THEN a[i] ELSE 0

RECURSIVE Trim(_)
Trim(a) == IF a = <<>> \/ a[Len(a)] # 0 THEN a ELSE Trim(SubSeq(a, 1, Len(a) - 1))

\* the digits of a + b + carry from the i-th on
RECURSIVE AddFrom(_, _, _, _)
AddFrom(a, b, i, carry) ==
    IF i > Len(a) /\ i > Len(b)
    THEN (IF carry = 0 THEN <<>> ELSE <<carry>>)
    ELSE LET t == Digit(a, i) + Digit(b, i) + carry
         IN  <<t % Base>> \o AddFrom(a, b, i + 1, t \div Base)

BigAdd(a, b) == AddFrom(a, b, 1, 0)

RECURSIVE SubFrom(_, _, _, _)
SubFrom(a, b, i, borrow) ==
    IF i > Len(a) THEN <<>>
    ELSE LET t == a[i] - Digit(b, i) - borrow
         IN  <<(t + Base) % Base>> \o SubFrom(a, b, i + 1, IF t < 0 THEN 1 ELSE 0)

\* a - b, for a >= b
BigSub(a, b) == Trim(SubFrom(a, b, 1, 0))

RECURSIVE LessFrom(_, _, _)
LessFrom(a, b, i) ==
    IF i = 0 THEN FALSE
    ELSE IF a[i] # b[i] THEN a[i] < b[i]
    ELSE LessFrom(a, b, i - 1)

BigLess(a, b) == IF Len(a) # Len(b) THEN Len(a) < Len(b) ELSE LessFrom(a, b, Len(a))

RECURSIVE TimesFrom(_, _, _, _)
TimesFrom(a, k, i, carry) ==
    IF i > Len(a) THEN (IF carry = 0 THEN <<>> ELSE <<carry>>)
    ELSE LET t == a[i] * k + carry
         IN  <<t % Base>> \o TimesFrom(a, k, i + 1, t \div Base)

\* a * k, for k < Base
Times(a, k) == IF k = 0 THEN <<>> ELSE TimesFrom(a, k, 1, 0)

ShiftDigits(a, n) == IF a = <<>> THEN <<>> ELSE [i \in 1..n |-> 0] \o a

RECURSIVE MulFrom(_, _, _)
MulFrom(a, b, i) ==
    IF i > Len(b) THEN <<>>
    ELSE BigAdd(ShiftDigits(Times(a, b[i]), i - 1), MulFrom(a, b, i + 1))

BigMul(a, b) == MulFrom(a, b, 1)

RECURSIVE DivideFrom(_, _, _, _)
DivideFrom(a, k, i, rem) ==
    IF i = 0 THEN <<>>
    ELSE LET t == rem * Base + a[i]
         IN  Append(DivideFrom(a, k, i - 1, t % k), t \div k)

\* the quotient of a by k, for 0 < k <= Base
Divide(a, k) == Trim(DivideFrom(a, k, Len(a), 0))

\* a * 2^n
ShiftLeft(a, n) == ShiftDigits(Times(a, 2 ^ (n % DigitBits)), n \div DigitBits)

\* the quotient of a by 2^n
ShiftRight(a, n) ==
    IF n \div DigitBits >= Len(a) THEN <<>>
    ELSE Divide(SubSeq(a, n \div DigitBits + 1, Len(a)), 2 ^ (n % DigitBits))

\* the number of bits of a
BitLength(a) ==
    IF a = <<>> THEN 0
    ELSE DigitBits * (Len(a) - 1)
           + (CHOOSE j \in 1..DigitBits : 2 ^ (j - 1) <= a[Len(a)] /\ a[Len(a)] < 2 ^ j)

\* the quotient of the leading digits of r and b, at most Base - 1
LeadQuotient(r, b) ==
    IF (Digit(r, Len(b) + 1) * Base + Digit(r, Len(b))) \div b[Len(b)] < Base
    THEN (Digit(r, Len(b) + 1) * Base + Digit(r, Len(b))) \div b[Len(b)]
    ELSE Base - 1

\* the digit r \div b, given an estimate q of it that is at most 2 too large
CorrectedDigit(r, b, q) ==
    IF ~BigLess(r, Times(b, q)) THEN q
    ELSE IF ~BigLess(r, Times(b, q - 1)) THEN q - 1
    ELSE q - 2

\* the digit r \div b, for r < b * Base and the last digit of b at least Base / 2:
\* the quotient of the leading digits is at most 2 too large
QuotientDigit(r, b) == CorrectedDigit(r, b, LeadQuotient(r, b))

\* the quotient so far with one more digit at its low end
PushDigit(rest, q) == [quot |-> Append(rest.quot, q), rem |-> rest.rem]

\* long division, the digits of a taken from the top
RECURSIVE DivFrom(_, _, _, _)
DivWith(a, b, i, r, q) == PushDigit(DivFrom(a, b, i - 1, BigSub(r, Times(b, q))), q)

DivDigit(a, b, i, r) == DivWith(a, b, i, r, QuotientDigit(r, b))

DivFrom(a, b, i, rem) ==
    IF i = 0 THEN [quot |-> <<>>, rem |-> rem]
    ELSE DivDigit(a, b, i, Trim(<<a[i]>> \o rem))

\* the quotient of a long division, and whether it left no remainder
Quotient(d) == [quot |-> Trim(d.quot), exact |-> d.rem = <<>>]

DivAll(a, b) == Quotient(DivFrom(a, b, Len(a), <<>>))

DivScaled(a, b, s) == DivAll(ShiftLeft(a, s), ShiftLeft(b, s))

\* the quotient of a by b > 0, and whether the division leaves a remainder; both
\* are scaled first so that the last digit of the divisor is at least Base / 2
BigDiv(a, b) == DivScaled(a, b, DigitBits * Len(b) - BitLength(b))

\* round to nearest, ties to even: the quotient q goes up
RoundsUp(twiceRest, unit, q) ==
    BigLess(unit, twiceRest) \/ (twiceRest = unit /\ q[1] % 2 = 1)

RoundTo(n, e, k, q) ==
    [ m |-> IF RoundsUp(ShiftLeft(BigSub(n, ShiftLeft(q, k)), 1), ShiftLeft(<<1>>, k), q)
            THEN BigAdd(q, <<1>>) ELSE q,
      e |-> e + k ]

\* n * 2^e with the last k bits of n rounded away
RoundBy(n, e, k) == RoundTo(n, e, k, ShiftRight(n, k))

\* n * 2^e rounded to a Number
Round(n, e) ==
    IF BitLength(n) <= Precision THEN [m |-> n, e |-> e]
    ELSE RoundBy(n, e, BitLength(n) - Precision)

\* the least exponent of the two
MinExp(x, y) == IF x.e < y.e THEN x.e ELSE y.e

\* x + y, x - y (for x >= y), x * y, x / y (for y > 0) of Numbers
NumAdd(x, y) ==
    Round(BigAdd(ShiftLeft(x.m, x.e - MinExp(x, y)), ShiftLeft(y.m, y.e - MinExp(x, y))),
          MinExp(x, y))

NumSub(x, y) ==
    Round(BigSub(ShiftLeft(x.m, x.e - MinExp(x, y)), ShiftLeft(y.m, y.e - MinExp(x, y))),
          MinExp(x, y))

NumMul(x, y) == Round(BigMul(x.m, y.m), x.e + y.e)

\* the Number of a quotient of x.m * 2^s by y.m, its last bit set when the
\* division left a remainder
NumOfQuotient(d, e) ==
    Round(BigAdd(ShiftLeft(d.quot, 1), IF d.exact THEN <<>> ELSE <<1>>), e)

NumDivBy(x, y, s) == NumOfQuotient(BigDiv(ShiftLeft(x.m, s), y.m), x.e - y.e - s - 1)

NumDiv(x, y) ==
    IF x.m = <<>> THEN x
    ELSE NumDivBy(x, y, IF Precision + 2 + BitLength(y.m) > BitLength(x.m)
                        THEN Precision + 2 + BitLength(y.m) - BitLength(x.m) ELSE 0)

\* the Number of an integer
NumOf(n) == Round(Digits(n), 0)

\* the Number a decimal literal of the source denotes, the literal given as its
\* count of 1/10000
Literal(units) == NumDiv(NumOf(units), NumOf(10000))

\* Math.floor
Floor(x) ==
    IF x.e >= 0 THEN NatOf(ShiftLeft(x.m, x.e)) ELSE NatOf(ShiftRight(x.m, 0 - x.e))

\* x.toFixed(4), as the count of 1/10000 the digits denote: the nearest, the
\* larger of two equally near
toFixed4(x) ==
    LET n == BigMul(x.m, Digits(10000))
    IN  IF x.e >= 0 THEN NatOf(ShiftLeft(n, x.e))
        ELSE NatOf(ShiftRight(BigAdd(n, ShiftLeft(<<1>>, 0 - x.e - 1)), 0 - x.e))

\* Math.random(): any Number x with 0 <= x < 1; the model draws the least and
\* the greatest of them
RandomLowest == [m |-> <<>>, e |-> 0]

RandomHighest == [m |-> BigSub(ShiftLeft(<<1>>, Precision), <<1>>), e |-> 0 - Precision]

RandomSample == {RandomLowest, RandomHighest}

-----------------------------------------------------------------------------
(* Parameter space and individuals.  A bound of the space is written as its  *)
(* count of 1/10000; a gene is kept as the count of 1/10000 its four decimal *)
(* digits denote (parseFloat maps different digit strings to different       *)
(* Numbers).                                                                 *)

parameterSpace ==
    [ learningRate_success    |-> [min |-> 100,    max |-> 10000,   step |-> 100],
      learningRate_failure    |-> [min |-> 100,    max |-> 5000,    step |-> 100],
      maxWeight               |-> [min |-> 10000,  max |-> 100000,  step |-> 1000],
      minWeight               |-> [min |-> 0,      max |-> 10000,   step |-> 100],
      decayFactor             |-> [min |-> 7000,   max |-> 9900,    step |-> 100],
      patternMinAttempts      |-> [min |-> 10000,  max |-> 200000,  step |-> 10000],
      patternSuccessThreshold |-> [min |-> 500000, max |-> 1000000, step |-> 10000],
      triggerMinAttempts      |-> [min |-> 10000,  max |-> 200000,  step |-> 10000],
      triggerSuccessThreshold |-> [min |-> 500000, max |-> 1000000, step |-> 10000],
      adaptiveSuccessRate     |-> [min |-> 100,    max |-> 5000,    step |-> 100],
      adaptiveFailureRate     |-> [min |-> 100,    max |-> 5000,    step |-> 100],
      minAdaptiveInfluence    |-> [min |-> 0,      max |-> 10000,   step |-> 100],
      maxAdaptiveInfluence    |-> [min |-> 10000,  max |-> 50000,   step |-> 1000] ]

\* the genes the individuals of the model carry
Genes == {"decayFactor"}

\* the Numbers the literals of the parameter space denote
spaceNumbers ==
    [ key \in DOMAIN parameterSpace |->
        [ min  |-> Literal(parameterSpace[key].min),
          max  |-> Literal(parameterSpace[key].max),
          step |-> Literal(parameterSpace[key].step) ] ]

\* const range = (max - min) / step, line 42
Range(space) == NumDiv(NumSub(space.max, space.min), space.step)

\* Math.floor(Math.random() * (range + 1)), line 43
RandomStep(range, random) == Floor(NumMul(random, NumAdd(range, NumOf(1))))

\* parseFloat((min + randomStep * step).toFixed(4)), line 44
GeneValue(space, randomStep) ==
    toFixed4(NumAdd(space.min, NumMul(NumOf(randomStep), space.step)))

\* lines 42-44 and 64-66: the value a gene of this space is given for this
\* random: first the range, then the step, then the value
DrawGene(space, random) ==
    CHOOSE gene \in { GeneValue(space, randomStep) :
                        randomStep \in { RandomStep(range, random) : range \in {Range(space)} } } :
        TRUE

\* every draw of lines 42-44 and 64-66: the gene and the value it is given
geneDraws ==
    UNION { { <<key, DrawGene(space, random)>> :
                space \in {spaceNumbers[key]}, random \in RandomSample } : key \in Genes }

\* the values one gene may be drawn as
GeneDraws(key) == { draw[2] : draw \in { d \in geneDraws : d[1] = key } }

\* the grid of a parameter: min + k * step for an integer k, 0 <= k <= (max - min) / step
OnGrid(key, value) ==
    \E k \in 0..((parameterSpace[key].max - parameterSpace[key].min) \div parameterSpace[key].step) :
        value = parameterSpace[key].min + k * parameterSpace[key].step

\* createIndividual: every individual it may return
createIndividual == { ind \in [Genes -> UNION { GeneDraws(k) : k \in Genes }] :
                        \A k \in Genes : ind[k] \in GeneDraws(k) }

\* crossover: every child of the two parents
crossover(parent1, parent2) ==
    { [k \in Genes |-> IF m[k] THEN parent1[k] ELSE parent2[k]] : m \in [Genes -> BOOLEAN] }

\* mutate: every result, the genes of S being drawn again
mutate(individual) ==
    UNION { { [k \in Genes |-> IF k \in S THEN r[k] ELSE individual[k]] : r \in createIndividual }
            : S \in SUBSET Genes }

-----------------------------------------------------------------------------
(* Fitness values: the rational num/den, den > 0 *)

Zero == [num |-> 0, den |-> 1]

\* a.fitness > b.fitness
FitnessGreater(a, b) == a.num * b.den > b.num * a.den

\* the ratio taken without the branch of line 205
UnguardedRatio(wins, losses) == [num |-> wins, den |-> losses]

\* calculateFitness, lines 204-208: the value returned for the counters
FitnessValue(wins, losses) ==
    IF losses = 0
    THEN (IF wins > 0 THEN [num |-> wins * 10, den |-> 1] ELSE Zero)
    ELSE [num |-> wins, den |-> losses]

\* calculateFitness(individual).  The replay loop returns 0 at once when it finds
\* the flag cleared (lines 140-142); otherwise the counters of the replay decide.
calculateFitness(individual, running, replay) ==
    IF ~running THEN Zero
    ELSE FitnessValue(replay[individual][1], replay[individual][2])

\* Number.prototype.toFixed(3), as a count of thousandths
toFixed3(f) == (2000 * f.num + f.den) \div (2 * f.den)

-----------------------------------------------------------------------------
(* Selection and sorting *)

\* selectParent, lines 75-82: the winner of the tournament with these draws
RECURSIVE Tournament(_, _, _, _)
Tournament(pop, draws, i, best) ==
    IF i > tournamentSize THEN best
    ELSE LET randomIndividual == pop[draws[i]]
         IN  Tournament(pop, draws, i + 1,
                 IF best = 0 \/ FitnessGreater(randomIndividual.fitness, pop[best].fitness)
                 THEN draws[i] ELSE best)

\* selectParent: every member of the population it may return
selectParent(pop) ==
    { pop[Tournament(pop, draws, 1, 0)] : draws \in [1..tournamentSize -> 1..Len(pop)] }

\* insert p after every entry that does not sort behind it (the sort is stable)
RECURSIVE InsertDesc(_, _)
InsertDesc(sorted, p) ==
    IF sorted = <<>> THEN <<p>>
    ELSE IF FitnessGreater(p.fitness, Head(sorted).fitness)
         THEN <<p>> \o sorted
         ELSE <<Head(sorted)>> \o InsertDesc(Tail(sorted), p)

RECURSIVE SortFrom(_, _, _)
SortFrom(pop, i, acc) ==
    IF i > Len(pop) THEN acc ELSE SortFrom(pop, i + 1, InsertDesc(acc, pop[i]))

\* population.sort((a, b) => b.fitness - a.fitness), line 242
SortByFitness(pop) == SortFrom(pop, 1, <<>>)

\* the entries taken from the end of the ranking instead of its start
ElitesFromTail(pop) == [i \in 1..eliteCount |-> pop[Len(pop) + 1 - i]]

\* the elites taken one place too low in the ranking
ElitesSkippingBest(pop) == [i \in 1..eliteCount |-> pop[i + 1]]

\* no member carried over: the loop of lines 259-261 never entered
ElitesDropped(pop) == <<>>

\* lines 258-261: the elites, in order
Elites(pop) == [i \in 1..eliteCount |-> pop[i]]

-----------------------------------------------------------------------------
(* Events posted to the controller *)

\* the report built from the counter as it was before line 225 incremented it
ProgressEventStale(pop, gen) ==
    [ type |-> "progress", generation |-> gen - 1, maxGenerations |-> maxGenerations,
      bestFitness |-> toFixed3(pop[1].fitness), bestIndividual |-> pop[1].individual,
      processedCount |-> (gen - 1) * populationSize ]

\* lines 245-254
ProgressEvent(pop, gen) ==
    [ type |-> "progress", generation |-> gen, maxGenerations |-> maxGenerations,
      bestFitness |-> toFixed3(pop[1].fitness), bestIndividual |-> pop[1].individual,
      processedCount |-> gen * populationSize ]

\* lines 288-295
CompleteEvent(pop, gen) ==
    [ type |-> "complete", generation |-> gen,
      bestFitness |-> toFixed3(pop[1].fitness), bestIndividual |-> pop[1].individual ]

\* lines 230, 237, 266
StoppedEvent == [ type |-> "stopped" ]

\* the end of the run with 'stopped' posted after the if instead of in its else
CompletionThenStopped(running, pop, gen) ==
    IF running THEN << CompleteEvent(pop, gen), StoppedEvent >> ELSE << StoppedEvent >>

\* lines 287-296: what the end of runEvolution posts
CompletionEvents(running, pop, gen) ==
    IF running THEN << CompleteEvent(pop, gen) >> ELSE << >>

-----------------------------------------------------------------------------
\* no helper has been called
NoCall == [op |-> "none"]

Init ==
    /\ mailbox = <<>>
    /\ pc = "idle"
    /\ isRunning = FALSE
    /\ generationCount = 0
    /\ historyData = 0
    /\ simulationHelpers = 0
    /\ population = <<>>
    /\ newPopulation = <<>>
    /\ evalIdx = 0
    /\ events = <<>>
    /\ replayOf = <<>>
    /\ cancelObserved = FALSE
    /\ stopPosted = FALSE
    /\ runsEnded = FALSE
    /\ stopsInARow = 0
    /\ historyArray = <<>>
    /\ objects = <<>>
    /\ frame = [tempAdaptiveInfluences |-> <<>>]
    /\ fitnessLog = <<>>
    /\ replayPc = "out"
    /\ helperToggle = TRUE
    /\ call = NoCall

(* The controller *)

PostStart ==
    /\ UNCHANGED replayVars
    /\ Len(mailbox) < MaxMailbox
    /\ \E p \in Payloads :
          mailbox' = Append(mailbox, [type |-> "start", payload |-> p, duringRun |-> pc # "idle"])
    /\ UNCHANGED <<workerVars, stopPosted, runsEnded, stopsInARow>>

PostStop ==
    /\ UNCHANGED replayVars
    /\ Len(mailbox) < MaxMailbox
    /\ mailbox' = Append(mailbox, [type |-> "stop", payload |-> 0, duringRun |-> pc # "idle"])
    /\ stopPosted' = (stopPosted \/ pc # "idle")
    /\ UNCHANGED <<workerVars, runsEnded, stopsInARow>>

(* The worker *)

\* the counter left as the previous run set it
GenerationCountKept == generationCount

\* line 215
GenerationCountAtStart == 0

\* the flag left as it is at the end of the run
FlagLeftSet == isRunning

\* line 297
FlagAfterRun == FALSE

\* the handler of 'stop' flipping the flag
StopToggles(running) == ~running

\* line 412: the value the handler of 'stop' gives the flag
StopSets(running) == FALSE

\* the return of runEvolution to the event loop: its locals are gone
Return ==
    /\ pc' = "idle"
    /\ population' = <<>>
    /\ newPopulation' = <<>>
    /\ evalIdx' = 0
    /\ replayOf' = <<>>
    /\ runsEnded' = TRUE

\* the seeding loop stopping one individual early
SeedCountShort == populationSize - 1

\* lines 219-221: the number of individuals the seeding loop creates
SeedCount == populationSize

\* a message handled at every turn of the generation loop, as if the loop
\* gave way to the event loop there
HandlerAtLoopTop == pc \in {"idle", "loop"}

\* self.onmessage is called only when no code of the worker is executing:
\* runEvolution has no await (lines 213-298), so it never gives way
HandlerMayRun == pc = "idle"

\* self.onmessage, case 'start' (lines 305-308, 408), and the first lines of
\* runEvolution (lines 214-221)
HandleStart ==
    /\ UNCHANGED replayVars
    /\ HandlerMayRun
    /\ mailbox # <<>>
    /\ Head(mailbox).type = "start"
    /\ mailbox' = Tail(mailbox)
    /\ stopsInARow' = 0
    /\ IF isRunning
       THEN UNCHANGED <<workerVars, stopPosted, runsEnded>>
       ELSE /\ historyData' = Head(mailbox).payload
            /\ simulationHelpers' = Head(mailbox).payload
            /\ isRunning' = TRUE
            /\ generationCount' = GenerationCountAtStart
            /\ population' \in [1..SeedCount ->
                                 { [individual |-> ind, fitness |-> Zero, computedIn |-> 0] :
                                     ind \in createIndividual }]
            /\ events' = <<>>
            /\ replayOf' \in [createIndividual -> ReplayOutcomes]
            /\ cancelObserved' = FALSE
            /\ stopPosted' = FALSE
            /\ pc' = "loop"
            /\ UNCHANGED <<newPopulation, evalIdx, runsEnded>>

\* self.onmessage, case 'stop' (lines 411-413)
HandleStop ==
    /\ UNCHANGED replayVars
    /\ HandlerMayRun
    /\ mailbox # <<>>
    /\ Head(mailbox).type = "stop"
    /\ mailbox' = Tail(mailbox)
    /\ stopsInARow' = IF stopsInARow < 2 THEN stopsInARow + 1 ELSE 2
    /\ isRunning' = StopSets(isRunning)
    /\ UNCHANGED <<pc, generationCount, historyData, simulationHelpers, population,
                   newPopulation, evalIdx, events, replayOf, cancelObserved, stopPosted,
                   runsEnded>>

\* the guard with the bound compared by <=
LoopGuardOffByOne == isRunning /\ generationCount <= maxGenerations

\* the guard of the generation loop, line 224
LoopGuard == isRunning /\ generationCount < maxGenerations

\* the elites, ranked in the generation before, passed over by the loop
FirstAfterElites == IF generationCount = 0 THEN 1 ELSE eliteCount + 1

\* line 228, for (const p of population): the loop starts at the first member
FirstEvaluated == 1

\* lines 224-225
LoopCheck ==
    /\ UNCHANGED replayVars
    /\ pc = "loop"
    /\ IF LoopGuard
       THEN /\ generationCount' = generationCount + 1
            /\ evalIdx' = FirstEvaluated
            /\ pc' = "eval"
       ELSE /\ pc' = "finish"
            /\ UNCHANGED <<generationCount, evalIdx>>
    /\ UNCHANGED <<mailbox, isRunning, historyData, simulationHelpers, population,
                   newPopulation, events, replayOf, cancelObserved, stopPosted, runsEnded,
                   stopsInARow>>

\* a failed cancellation check: 'stopped' is posted and runEvolution returns
Cancelled ==
    /\ events' = Append(events, StoppedEvent)
    /\ cancelObserved' = TRUE
    /\ Return

\* one turn of the loop of lines 228-234
EvalOne ==
    /\ UNCHANGED replayVars
    /\ pc = "eval"
    /\ evalIdx <= Len(population)
    /\ IF ~isRunning
       THEN Cancelled
       ELSE /\ population' = [population EXCEPT
                                 ![evalIdx].fitness =
                                     calculateFitness(population[evalIdx].individual, isRunning, replayOf),
                                 ![evalIdx].computedIn = generationCount]
            /\ evalIdx' = evalIdx + 1
            /\ UNCHANGED <<pc, newPopulation, events, replayOf, cancelObserved, runsEnded>>
    /\ UNCHANGED <<mailbox, isRunning, generationCount, historyData, simulationHelpers,
                   stopPosted, stopsInARow>>

\* lines 236-261: second check, sort, progress report, elitism
RankAndReport ==
    /\ UNCHANGED replayVars
    /\ pc = "eval"
    /\ evalIdx > Len(population)
    /\ IF ~isRunning
       THEN Cancelled
       ELSE /\ population' = SortByFitness(population)
            /\ events' = Append(events, ProgressEvent(population', generationCount))
            /\ newPopulation' = Elites(population')
            /\ evalIdx' = 0
            /\ pc' = "breed"
            /\ UNCHANGED <<replayOf, cancelObserved, runsEnded>>
    /\ UNCHANGED <<mailbox, isRunning, generationCount, historyData, simulationHelpers,
                   stopPosted, stopsInARow>>

\* lines 269-280: every offspring one turn of the breeding loop may build
Offspring(pop) ==
    LET parents == selectParent(pop)
    IN  UNION { UNION { UNION { mutate(child) :
                                  child \in crossover(parent1.individual, parent2.individual)
                                             \cup {parent1.individual} }
                        : parent2 \in parents }
                : parent1 \in parents }

\* one turn of the loop of lines 264-281
BreedOne ==
    /\ UNCHANGED replayVars
    /\ pc = "breed"
    /\ Len(newPopulation) < populationSize
    /\ IF ~isRunning
       THEN Cancelled
       ELSE /\ \E child \in Offspring(population) :
                  newPopulation' = Append(newPopulation,
                                          [individual |-> child, fitness |-> Zero, computedIn |-> 0])
            /\ UNCHANGED <<pc, population, evalIdx, events, replayOf, cancelObserved, runsEnded>>
    /\ UNCHANGED <<mailbox, isRunning, generationCount, historyData, simulationHelpers,
                   stopPosted, stopsInARow>>

\* line 283, and the end of the loop body
SwapPopulation ==
    /\ UNCHANGED replayVars
    /\ pc = "breed"
    /\ Len(newPopulation) >= populationSize
    /\ population' = newPopulation
    /\ newPopulation' = <<>>
    /\ pc' = "loop"
    /\ UNCHANGED <<mailbox, isRunning, generationCount, historyData, simulationHelpers,
                   evalIdx, events, replayOf, cancelObserved, stopPosted, runsEnded,
                   stopsInARow>>

\* lines 286-297
Finish ==
    /\ UNCHANGED replayVars
    /\ pc = "finish"
    /\ events' = events \o CompletionEvents(isRunning, population, generationCount)
    /\ isRunning' = FlagAfterRun
    /\ Return
    /\ UNCHANGED <<mailbox, generationCount, historyData, simulationHelpers,
                   cancelObserved, stopPosted, stopsInARow>>

Next ==
    \/ PostStart
    \/ PostStop
    \/ HandleStart
    \/ HandleStop
    \/ LoopCheck
    \/ EvalOne
    \/ RankAndReport
    \/ BreedOne
    \/ SwapPopulation
    \/ Finish

Spec == Init /\ [][Next]_vars

\* the statements of runEvolution: the engine runs a handler to its end
RunStep ==
    LoopCheck \/ EvalOne \/ RankAndReport \/ BreedOne \/ SwapPopulation \/ Finish

FairSpec == Spec /\ WF_vars(RunStep)

-----------------------------------------------------------------------------
(* Scores, weights and influences of the replay: exact fractions num/den with
   den > 0, in lowest terms (the representation of the fitness values above) *)

\* null where an id or a status may stand, where a number may stand, and where
\* an object may stand
null == "null"

nullNumber == 0 - 1

nullObject == <<>>

Abs(n) == IF n < 0 THEN 0 - n ELSE n

RECURSIVE GCD(_, _)
GCD(a, b) == IF b = 0 THEN a ELSE GCD(b, a % b)

Frac(n, d) == LET g == GCD(Abs(n), d) IN [num |-> n \div g, den |-> d \div g]

FracOf(n) == [num |-> n, den |-> 1]

FracAdd(a, b) == Frac(a.num * b.den + b.num * a.den, a.den * b.den)

FracSub(a, b) == Frac(a.num * b.den - b.num * a.den, a.den * b.den)

FracMul(a, b) == Frac(a.num * b.num, a.den * b.den)

\* a / b for b > 0
FracDiv(a, b) == Frac(a.num * b.den, a.den * b.num)

FracLess(a, b) == a.num * b.den < b.num * a.den

\* Math.min, Math.max
FracMin(a, b) == IF FracLess(b, a) THEN b ELSE a

FracMax(a, b) == IF FracLess(a, b) THEN b ELSE a

\* Math.pow(x, n) for an integer n >= 0
RECURSIVE FracPow(_, _)
FracPow(x, n) == IF n = 0 THEN FracOf(1) ELSE FracMul(x, FracPow(x, n - 1))

\* the sum of the fractions f[x], x in set
RECURSIVE FracSum(_, _)
FracSum(set, f) ==
    IF set = {} THEN Zero
    ELSE LET x == CHOOSE y \in set : TRUE
         IN  FracAdd(f[x], FracSum(set \ {x}, f))

\* the Number a gene holds, genes being counted in units of 1/10000
GeneNumber(individual, key) == Frac(individual[key], 10000)

-----------------------------------------------------------------------------
(* shared-logic.js: the helper functions the controller hands to the worker,
   with the wheel, the terminal mapping and the prediction types of the payload *)

\* payload: the pockets of the wheel in their order on the wheel
rouletteWheel ==
    <<0, 32, 15, 19, 4, 21, 2, 25, 17, 34, 6, 27, 13, 36, 11, 30, 8, 23, 10, 5,
      24, 16, 33, 1, 20, 14, 31, 9, 22, 18, 29, 7, 28, 12, 35, 3, 26>>

\* payload: the terminals of each base number; none, one, two and three occur
terminalMapping ==
    [n \in 0..36 |->
        IF n % 4 = 0 THEN <<>>
        ELSE IF n % 4 = 1 THEN <<(n + 9) % 37>>
        ELSE IF n % 4 = 2 THEN <<(n + 10) % 37, (n + 20) % 37>>
        ELSE <<(n + 10) % 37, (n + 20) % 37, (n + 30) % 37>>]

\* payload: the ids of the prediction types, in the order of the array
allPredictionTypes == <<"diffMinus", "sumResult">>

\* type.calculateBase(num1, num2) of the prediction type with this id
calculateBase(typeId, num1, num2) ==
    IF typeId = "diffMinus" THEN Abs(num1 - num2) - 1 ELSE num1 + num2

Elements(array) == { array[i] : i \in DOMAIN array }

\* Array.prototype.indexOf, counted from 0
indexOf(array, x) ==
    IF x \in Elements(array)
    THEN (CHOOSE i \in DOMAIN array : array[i] = x /\ \A j \in 1..(i - 1) : array[j] # x) - 1
    ELSE 0 - 1

\* Infinity, for pocket distances: greater than every distance on the wheel
Infinity == 1000

\* the least of a non-empty set of numbers
Least(set) == CHOOSE x \in set : \A y \in set : x <= y

\* the neighbours on one side of number only
getNeighboursOneSide(number, count) ==
    LET index     == indexOf(rouletteWheel, number)
        wheelSize == Len(rouletteWheel)
    IN  IF index = 0 - 1 THEN {}
        ELSE { rouletteWheel[((index + i) % wheelSize) + 1] : i \in 1..count }

\* getNeighbours, lines 13-23: the pockets within count places of number
getNeighbours(number, count) ==
    LET index     == indexOf(rouletteWheel, number)
        wheelSize == Len(rouletteWheel)
    IN  IF index = 0 - 1 THEN {}
        ELSE UNION { { rouletteWheel[((index - i + wheelSize) % wheelSize) + 1],
                       rouletteWheel[((index + i) % wheelSize) + 1] } : i \in 1..count }

\* calculatePocketDistance, lines 25-32
calculatePocketDistance(num1, num2) ==
    LET index1 == indexOf(rouletteWheel, num1)
        index2 == indexOf(rouletteWheel, num2)
        directDistance == Abs(index1 - index2)
        wrapAroundDistance == Len(rouletteWheel) - directDistance
    IN  IF index1 = 0 - 1 \/ index2 = 0 - 1 THEN Infinity
        ELSE IF directDistance < wrapAroundDistance THEN directDistance
        ELSE wrapAroundDistance

\* the zone with no neighbours of the terminals whenever the mode is dynamic and
\* the winning number known, whatever that number is
getHitZoneNarrowed(baseNumber, terminals, winningNumber, useDynamicTerminalNeighbourCountBool) ==
    IF baseNumber < 0 \/ baseNumber > 36 THEN {}
    ELSE
    LET numTerminals == Len(terminals)
        baseNeighbourCount ==
            IF numTerminals = 1 THEN 3 ELSE IF numTerminals >= 2 THEN 1 ELSE 0
        terminalNeighbourCount ==
            IF useDynamicTerminalNeighbourCountBool /\ winningNumber # nullNumber THEN 0
            ELSE IF numTerminals = 1 \/ numTerminals = 2 THEN 3
            ELSE IF numTerminals > 2 THEN 1 ELSE 0
    IN  {baseNumber}
        \cup getNeighbours(baseNumber, baseNeighbourCount)
        \cup UNION { {t} \cup getNeighbours(t, terminalNeighbourCount) : t \in Elements(terminals) }

\* getHitZone, lines 34-60: the set of pockets of the zone
getHitZone(baseNumber, terminals, winningNumber, useDynamicTerminalNeighbourCountBool) ==
    IF baseNumber < 0 \/ baseNumber > 36 THEN {}
    ELSE
    LET numTerminals == Len(terminals)
        baseNeighbourCount ==
            IF numTerminals = 1 THEN 3 ELSE IF numTerminals >= 2 THEN 1 ELSE 0
        fixedCount ==
            IF numTerminals = 1 \/ numTerminals = 2 THEN 3
            ELSE IF numTerminals > 2 THEN 1 ELSE 0
        terminalNeighbourCount ==
            IF useDynamicTerminalNeighbourCountBool /\ winningNumber # nullNumber
            THEN IF baseNumber = winningNumber \/ winningNumber \in Elements(terminals)
                 THEN 0 ELSE fixedCount
            ELSE fixedCount
    IN  {baseNumber}
        \cup getNeighbours(baseNumber, baseNeighbourCount)
        \cup UNION { {t} \cup getNeighbours(t, terminalNeighbourCount) : t \in Elements(terminals) }

\* terminalMapping?.[baseNum] || []
TerminalsOf(baseNum) == IF baseNum \in DOMAIN terminalMapping THEN terminalMapping[baseNum] ELSE <<>>

\* the function f as the table of its values
Table(f) == f @@ <<>>

\* obj with the properties of fields assigned
Assign(obj, fields) == fields @@ obj

\* lines 69-76: the hit zone of a prediction type for the numbers of an item
ZoneOfType(type, num1, num2, winningNumber, useDynamicTerminalNeighbourCountBool) ==
    getHitZone(calculateBase(type, num1, num2), TerminalsOf(calculateBase(type, num1, num2)),
               winningNumber, useDynamicTerminalNeighbourCountBool)

\* lines 70-78: the type has its base number on the wheel and the winning number
\* in its hit zone
HitBy(type, historyItem, winningNumber, useDynamicTerminalNeighbourCountBool) ==
    /\ calculateBase(type, historyItem.num1, historyItem.num2) >= 0
    /\ calculateBase(type, historyItem.num1, historyItem.num2) <= 36
    /\ winningNumber \in ZoneOfType(type, historyItem.num1, historyItem.num2, winningNumber,
                                    useDynamicTerminalNeighbourCountBool)

\* lines 66, 81-86, 93: the least distance of the winning number to a pocket of
\* the zones that hold it, null when there is no such zone
PocketDistanceOf(zones, winningNumber) ==
    IF zones = {} THEN nullNumber
    ELSE Least({ calculatePocketDistance(zoneNum, winningNumber) : zoneNum \in UNION zones })

\* lines 63-65, 71-99: the item with the properties the call assigns
Evaluated(historyItem, winningNumber, hitTypes, pocketDistance) ==
    Assign(historyItem,
           [ winningNumber     |-> winningNumber,
             hitTypes          |-> hitTypes,
             typeSuccessStatus |-> [ type \in Elements(allPredictionTypes) |->
                                        type \in Elements(hitTypes) ],
             status            |-> IF hitTypes # <<>> THEN "success" ELSE "fail",
             pocketDistance    |-> pocketDistance,
             recommendedGroupPocketDistance |->
                 IF /\ "recommendedGroupId" \in DOMAIN historyItem
                    /\ historyItem.recommendedGroupId # null
                    /\ historyItem.recommendedGroupId \in Elements(hitTypes)
                 THEN pocketDistance ELSE nullNumber ])

EvaluatedFor(historyItem, winningNumber, useDynamicTerminalNeighbourCountBool, hitTypes) ==
    Evaluated(historyItem, winningNumber, hitTypes,
              PocketDistanceOf({ ZoneOfType(type, historyItem.num1, historyItem.num2,
                                            winningNumber, useDynamicTerminalNeighbourCountBool) :
                                     type \in Elements(hitTypes) },
                               winningNumber))

\* evaluateCalculationStatus, lines 62-100: the item after the call
evaluateCalculationStatus(historyItem, winningNumber, useDynamicTerminalNeighbourCountBool) ==
    EvaluatedFor(historyItem, winningNumber, useDynamicTerminalNeighbourCountBool,
                 SelectSeq(allPredictionTypes,
                           LAMBDA type : HitBy(type, historyItem, winningNumber,
                                               useDynamicTerminalNeighbourCountBool)))

\* item.typeSuccessStatus && item.typeSuccessStatus.hasOwnProperty(type)
HasStatusOf(item, type) ==
    "typeSuccessStatus" \in DOMAIN item /\ type \in DOMAIN item.typeSuccessStatus

\* item.typeSuccessStatus && item.typeSuccessStatus[type]
SucceededFor(item, type) == HasStatusOf(item, type) /\ item.typeSuccessStatus[type]

StatusOf(item) == IF "status" \in DOMAIN item THEN item.status ELSE null

\* calculateTrendStats, lines 102-143: currentStreaks after the first upto items
RECURSIVE StreakAfter(_, _, _)
StreakAfter(items, type, upto) ==
    IF upto = 0 THEN 0
    ELSE IF StatusOf(items[upto]) = "pending" THEN StreakAfter(items, type, upto - 1)
    ELSE IF SucceededFor(items[upto], type) THEN StreakAfter(items, type, upto - 1) + 1
    ELSE 0

\* Array.prototype.sort((a, b) => a.id - b.id): stable, ascending by id
RECURSIVE InsertById(_, _)
InsertById(sorted, item) ==
    IF sorted = <<>> THEN <<item>>
    ELSE IF sorted[Len(sorted)].id <= item.id THEN Append(sorted, item)
    ELSE Append(InsertById(SubSeq(sorted, 1, Len(sorted) - 1), item), sorted[Len(sorted)])

RECURSIVE SortItemsFrom(_, _, _)
SortItemsFrom(items, i, sorted) ==
    IF i > Len(items) THEN sorted
    ELSE SortItemsFrom(items, i + 1, InsertById(sorted, items[i]))

SortById(items) == SortItemsFrom(items, 1, <<>>)

\* the hitTypes of the last item of status 'success', [] if there is none
RECURSIVE LastSuccessState(_, _)
LastSuccessState(items, upto) ==
    IF upto = 0 THEN <<>>
    ELSE IF StatusOf(items[upto]) = "success" THEN items[upto].hitTypes
    ELSE LastSuccessState(items, upto - 1)

\* lines 110-142, for the sorted copy of the history
TrendStatsOf(sortedHistory, activeTypesArr) ==
    [ currentStreaks   |-> Table([ type \in Elements(activeTypesArr) |->
                                      StreakAfter(sortedHistory, type, Len(sortedHistory)) ]),
      lastSuccessState |-> LastSuccessState(sortedHistory, Len(sortedHistory)) ]

\* calculateTrendStats, lines 102-143.  Of the result, currentStreaks and
\* lastSuccessState; the averages only reach the text shown to the user.
calculateTrendStats(currentHistory, activeTypesArr) ==
    TrendStatsOf(SortById(currentHistory), activeTypesArr)

\* Math.pow(decayFactor, length - 1 - i) for the item at position i, counted from 1
WeightAt(decayFactor, length, i) == FracPow(decayFactor, length - i)

\* the weights of the items at these positions of the history
Weights(simulatedHistory, decayFactor, positions) ==
    FracSum(positions, Table([ i \in positions |-> WeightAt(decayFactor, Len(simulatedHistory), i) ]))

\* getBoardStateStats, lines 145-164
getBoardStateStats(simulatedHistory, decayFactor, activePredictionTypes) ==
    Table([ type \in Elements(activePredictionTypes) |->
              [ success |-> Weights(simulatedHistory, decayFactor,
                                    { i \in DOMAIN simulatedHistory :
                                        /\ StatusOf(simulatedHistory[i]) = "success"
                                        /\ type \in Elements(simulatedHistory[i].hitTypes) }),
                total   |-> Weights(simulatedHistory, decayFactor,
                                    { i \in DOMAIN simulatedHistory :
                                        HasStatusOf(simulatedHistory[i], type) }) ] ])

\* lines 170-177: the hit zones of the hit types of the successful items, each
\* with the position of its item and its place among the item's hit types
SuccessZones(simulatedHistory, useDynamicTerminalNeighbourCountBool) ==
    { <<hit[1], hit[2],
        ZoneOfType(simulatedHistory[hit[1]].hitTypes[hit[2]], simulatedHistory[hit[1]].num1,
                   simulatedHistory[hit[1]].num2, simulatedHistory[hit[1]].winningNumber,
                   useDynamicTerminalNeighbourCountBool)>> :
        hit \in { <<i, k>> \in (DOMAIN simulatedHistory) \X (1..Len(allPredictionTypes)) :
                    /\ StatusOf(simulatedHistory[i]) = "success"
                    /\ k <= Len(simulatedHistory[i].hitTypes)
                    /\ simulatedHistory[i].hitTypes[k] \in Elements(allPredictionTypes) } }

\* line 179: the weights added for these zones
ZoneWeights(simulatedHistory, decayFactor, zones) ==
    FracSum(zones, Table([ zone \in zones |->
                             WeightAt(decayFactor, Len(simulatedHistory), zone[1]) ]))

\* lines 167-168, 178-180: analysis[num].success for every num
NeighbourScores(simulatedHistory, decayFactor, zones) ==
    Table([ num \in 0..36 |->
              ZoneWeights(simulatedHistory, decayFactor, { zone \in zones : num \in zone[3] }) ])

\* runNeighbourAnalysis, lines 166-184
runNeighbourAnalysis(simulatedHistory, decayFactor, useDynamicTerminalNeighbourCountBool) ==
    NeighbourScores(simulatedHistory, decayFactor,
                    SuccessZones(simulatedHistory, useDynamicTerminalNeighbourCountBool))

\* tempAdaptiveInfluences[name], undefined (nullObject) if the object has no such key
InfluenceOf(influences, name) ==
    IF \E i \in DOMAIN influences : influences[i].name = name
    THEN influences[CHOOSE i \in DOMAIN influences : influences[i].name = name].influence
    ELSE nullObject

\* details.individualScores[factorName] || 0
ScoreOf(individualScores, factorName) ==
    IF factorName \in DOMAIN individualScores THEN individualScores[factorName] ELSE Zero

\* the raw points taken as they are
InfluencedRaw(rawScore, influence) == rawScore

\* line 244, const influencedScore = factorScore * influence
Influenced(rawScore, influence) == FracMul(rawScore, influence)

\* getRecommendation, lines 241-250: [final, highest, factor] after the for-in
\* loop over the first upto keys of currentAdaptiveInfluences
RECURSIVE InfluencedScores(_, _, _)
InfluencedScores(individualScores, influences, upto) ==
    IF upto = 0 THEN [final |-> Zero, highest |-> Zero, factor |-> "N/A"]
    ELSE LET before == InfluencedScores(individualScores, influences, upto - 1)
             influencedScore == Influenced(ScoreOf(individualScores, influences[upto].name),
                                           influences[upto].influence)
         IN  [ final   |-> FracAdd(before.final, influencedScore),
               highest |-> IF FracLess(before.highest, influencedScore)
                           THEN influencedScore ELSE before.highest,
               factor  |-> IF FracLess(before.highest, influencedScore)
                           THEN influences[upto].name ELSE before.factor ]

\* line 200: the hit rate of a type with these board statistics
HitRate(stat) ==
    IF FracLess(Zero, stat.total)
    THEN FracMul(FracDiv(stat.success, stat.total), FracOf(100))
    ELSE Zero

\* lines 203, 221-225: the least distance of the last winning number to the zone
PredictiveDistance(hitZone, lastWinningNumber, useProximityBoostBool) ==
    IF useProximityBoostBool /\ lastWinningNumber # nullNumber /\ hitZone # {}
    THEN Least({ calculatePocketDistance(zoneNum, lastWinningNumber) : zoneNum \in hitZone })
    ELSE Infinity

\* lines 214-237: details.individualScores
IndividualScores(hitRate, currentStreak, predictiveDistance, hitZone, neighbourScores, lastWinningNumber, useProximityBoostBool, useWeightedZoneBool) ==
    [ x \in {"Hit Rate"} |-> FracMul(FracMax(Zero, FracSub(hitRate, FracOf(40))), Frac(1, 2)) ]
    @@ [ x \in {"Streak"} |-> FracOf(IF currentStreak * 5 < 15 THEN currentStreak * 5 ELSE 15) ]
    @@ (IF useProximityBoostBool /\ lastWinningNumber # nullNumber /\ predictiveDistance <= 5
        THEN [ x \in {"Proximity to Last Spin"} |-> FracOf((5 - predictiveDistance) * 2) ]
        ELSE <<>>)
    @@ (IF useWeightedZoneBool
        THEN [ x \in {"Hot Zone Weighting"} |->
                 FracMin(FracOf(10), FracMul(FracSum(hitZone, neighbourScores), Frac(1, 2))) ]
        ELSE <<>>)

\* lines 199-209, 251-253: the candidate with its details
Rated(type, hitRate, currentStreak, predictiveDistance, individualScores, influenced) ==
    [ type    |-> type,
      score   |-> influenced.final,
      details |-> [ hitRate              |-> hitRate,
                    currentStreak        |-> currentStreak,
                    predictiveDistance   |-> predictiveDistance,
                    finalScore           |-> influenced.final,
                    primaryDrivingFactor |-> influenced.factor,
                    individualScores     |-> individualScores ] ]

\* lines 238-253
Scored(type, hitRate, currentStreak, predictiveDistance, individualScores, currentAdaptiveInfluences) ==
    Rated(type, hitRate, currentStreak, predictiveDistance, individualScores,
          InfluencedScores(individualScores, currentAdaptiveInfluences,
                           Len(currentAdaptiveInfluences)))

\* lines 214-253, the hit zone of the candidate and its distance known
CandidateAt(type, hitRate, currentStreak, hitZone, predictiveDistance, neighbourScores, currentAdaptiveInfluences, lastWinningNumber, useProximityBoostBool, useWeightedZoneBool) ==
    Scored(type, hitRate, currentStreak, predictiveDistance,
           IndividualScores(hitRate, currentStreak, predictiveDistance, hitZone, neighbourScores,
                            lastWinningNumber, useProximityBoostBool, useWeightedZoneBool),
           currentAdaptiveInfluences)

CandidateInZone(type, hitRate, currentStreak, hitZone, neighbourScores, currentAdaptiveInfluences, lastWinningNumber, useProximityBoostBool, useWeightedZoneBool) ==
    CandidateAt(type, hitRate, currentStreak, hitZone,
                PredictiveDistance(hitZone, lastWinningNumber, useProximityBoostBool),
                neighbourScores, currentAdaptiveInfluences, lastWinningNumber,
                useProximityBoostBool, useWeightedZoneBool)

\* a base number refused only when it is above the wheel
OffWheelAbove(baseNum) == baseNum > 36

\* line 211, if (baseNum < 0 || baseNum > 36) return null
OffWheel(baseNum) == baseNum < 0 \/ baseNum > 36

\* getRecommendation, lines 198-254: the candidate of one prediction type, null
\* when its base number is off the wheel
Candidate(type, trendStats, boardStats, neighbourScores, inputNum1, inputNum2, currentAdaptiveInfluences, lastWinningNumber, useProximityBoostBool, useWeightedZoneBool, useDynamicTerminalNeighbourCount) ==
    IF OffWheel(calculateBase(type, inputNum1, inputNum2)) THEN nullObject
    ELSE CandidateInZone(type, HitRate(boardStats[type]), trendStats.currentStreaks[type],
                         ZoneOfType(type, inputNum1, inputNum2, lastWinningNumber,
                                    useDynamicTerminalNeighbourCount),
                         neighbourScores, currentAdaptiveInfluences, lastWinningNumber,
                         useProximityBoostBool, useWeightedZoneBool)

\* the first candidate, the array left unsorted
BestOfUnsorted(candidates, upto) == candidates[1]

\* candidates.sort((a, b) => b.score - a.score)[0]: the first of the greatest score
RECURSIVE BestOf(_, _)
BestOf(candidates, upto) ==
    IF upto = 1 THEN candidates[1]
    ELSE IF FracLess(BestOf(candidates, upto - 1).score, candidates[upto].score)
    THEN candidates[upto]
    ELSE BestOf(candidates, upto - 1)

\* lines 260-269: the signal shown for the best candidate
Signal(bestCandidate, trendStats, useTrendConfirmationBool) ==
    IF /\ useTrendConfirmationBool
       /\ Len(trendStats.lastSuccessState) > 0
       /\ bestCandidate.type \notin Elements(trendStats.lastSuccessState)
    THEN "Wait"
    ELSE IF FracLess(FracOf(50), bestCandidate.score) THEN "Strong Play"
    ELSE "Play"

\* no candidate returned with the signal to wait
ReturnedUnlessWait(bestCandidate, signal) ==
    [bestCandidate |-> IF signal = "Wait" THEN nullObject ELSE bestCandidate, signal |-> signal]

\* line 275, return { html: finalHtml, bestCandidate, details }: html is the
\* signal it shows
Returned(bestCandidate, signal) == [bestCandidate |-> bestCandidate, signal |-> signal]

\* lines 255 and 258: no candidate
NoRecommendation == [bestCandidate |-> nullObject, signal |-> "Wait for Signal"]

\* the best candidate refused only when its score is below 0
AcceptedNonNegative(bestCandidate, trendStats, useTrendConfirmationBool) ==
    IF FracLess(bestCandidate.score, Zero) THEN NoRecommendation
    ELSE Returned(bestCandidate, Signal(bestCandidate, trendStats, useTrendConfirmationBool))

\* lines 257-275: the result for the best candidate
Accepted(bestCandidate, trendStats, useTrendConfirmationBool) ==
    IF ~FracLess(Zero, bestCandidate.score) THEN NoRecommendation
    ELSE Returned(bestCandidate, Signal(bestCandidate, trendStats, useTrendConfirmationBool))

\* lines 255-275: the result for the candidates
Recommended(candidates, trendStats, useTrendConfirmationBool) ==
    IF candidates = <<>> THEN NoRecommendation
    ELSE Accepted(BestOf(candidates, Len(candidates)), trendStats, useTrendConfirmationBool)

\* lines 198-254: the candidates, one for each type whose base is on the wheel
Candidates(trendStats, boardStats, neighbourScores, inputNum1, inputNum2, currentAdaptiveInfluences, lastWinningNumber, useProximityBoostBool, useWeightedZoneBool, useDynamicTerminalNeighbourCount) ==
    SelectSeq([ i \in DOMAIN allPredictionTypes |->
                  Candidate(allPredictionTypes[i], trendStats, boardStats,
                            neighbourScores, inputNum1, inputNum2,
                            currentAdaptiveInfluences, lastWinningNumber,
                            useProximityBoostBool, useWeightedZoneBool,
                            useDynamicTerminalNeighbourCount) ],
              LAMBDA c : c # nullObject)

\* getRecommendation, lines 186-276: the bestCandidate and the signal of the result
getRecommendation(trendStats, boardStats, neighbourScores, inputNum1, inputNum2, currentAdaptiveInfluences, lastWinningNumber, useProximityBoostBool, useWeightedZoneBool, useTrendConfirmationBool, useDynamicTerminalNeighbourCount) ==
    Recommended(Candidates(trendStats, boardStats, neighbourScores, inputNum1, inputNum2,
                           currentAdaptiveInfluences, lastWinningNumber,
                           useProximityBoostBool, useWeightedZoneBool,
                           useDynamicTerminalNeighbourCount),
                trendStats, useTrendConfirmationBool)

-----------------------------------------------------------------------------
(* calculateFitness, lines 93-209: the replay of the history for one individual.
   History items and the replay's copies of them are objects, named by their
   place in the sequence objects; arrays of items hold these names. *)

\* lines 130-133; the order of the keys is the order of their insertion
SeedInfluences ==
    << [name |-> "Hit Rate",               influence |-> FracOf(1)],
       [name |-> "Streak",                 influence |-> FracOf(1)],
       [name |-> "Proximity to Last Spin", influence |-> FracOf(1)],
       [name |-> "Hot Zone Weighting",     influence |-> FracOf(1)],
       [name |-> "High AI Confidence",     influence |-> FracOf(1)],
       [name |-> "Statistical Trends",     influence |-> FracOf(1)] >>

\* the influences of the call before carried into the next one
KeptInfluences(previous) == IF previous = <<>> THEN SeedInfluences ELSE previous

\* tempAdaptiveInfluences at the start of a call that follows one which left
\* the value previous: a fresh object, line 130
FreshInfluences(previous) == SeedInfluences

\* the item itself in place of a copy of it
SameObject(objs, ref) == [objects |-> objs, ref |-> ref]

\* line 167, { ...rawItem }: a new object with the properties of the item
SpreadCopy(objs, ref) == [objects |-> Append(objs, objs[ref]), ref |-> Len(objs) + 1]

\* the names of the items of a sequence of (id, name) pairs
RECURSIVE RefsOf(_)
RefsOf(keyed) ==
    IF keyed = <<>> THEN <<>>
    ELSE Append(RefsOf(SubSeq(keyed, 1, Len(keyed) - 1)), keyed[Len(keyed)].ref)

\* line 136, [...historyData].sort((a, b) => a.id - b.id): a new array
SortedCopy(array, objs) ==
    RefsOf(SortById([ i \in DOMAIN array |-> [id |-> objs[array[i]].id, ref |-> array[i]] ]))

\* lines 95-136: the locals of a call, its loop not yet entered
EnterFitness(previous, individual, array, objs) ==
    [ individual             |-> individual,
      wins                   |-> 0,
      losses                 |-> 0,
      simulatedHistory       |-> <<>>,
      tempAdaptiveInfluences |-> FreshInfluences(previous),
      tempConfirmedWinsLog   |-> <<>>,
      sortedHistory          |-> SortedCopy(array, objs),
      position               |-> 0,
      result                 |-> nullObject ]

\* lines 187-189: the influences with the factor defined
Defined(influences, primaryFactor) ==
    IF InfluenceOf(influences, primaryFactor) = nullObject
    THEN Append(influences, [name |-> primaryFactor, influence |-> FracOf(1)])
    ELSE influences

\* the influence moved by the rate without Math.min and Math.max
AdjustedUnclamped(current, wasSuccess, individual) ==
    IF wasSuccess
    THEN FracAdd(current, GeneNumber(individual, "adaptiveSuccessRate"))
    ELSE FracSub(current, GeneNumber(individual, "adaptiveFailureRate"))

\* lines 191-195: the influence after a success or a failure
Adjusted(current, wasSuccess, individual) ==
    IF wasSuccess
    THEN FracMin(GeneNumber(individual, "maxAdaptiveInfluence"),
                 FracAdd(current, GeneNumber(individual, "adaptiveSuccessRate")))
    ELSE FracMax(GeneNumber(individual, "minAdaptiveInfluence"),
                 FracSub(current, GeneNumber(individual, "adaptiveFailureRate")))

\* every factor moved, not the primary one alone
AdjustedAll(defined, primaryFactor, wasSuccess, individual) ==
    [ i \in DOMAIN defined |->
        [name |-> defined[i].name, influence |-> Adjusted(defined[i].influence, wasSuccess, individual)] ]

\* lines 190-195: the influence of the primary factor replaced, the others kept
AdjustedAt(defined, primaryFactor, wasSuccess, individual) ==
    [ defined EXCEPT
        ![CHOOSE i \in DOMAIN defined : defined[i].name = primaryFactor] =
            [name |-> primaryFactor, influence |-> Adjusted(@.influence, wasSuccess, individual)] ]

\* lines 187-195: tempAdaptiveInfluences after the outcome of a recommendation
\* whose primary factor is primaryFactor
UpdatedInfluences(influences, primaryFactor, wasSuccess, individual) ==
    AdjustedAt(Defined(influences, primaryFactor), primaryFactor, wasSuccess, individual)

\* lines 114-122, the toggles of the simulation that getRecommendation reads
SIM_TOGGLES == [useProximityBoost |-> TRUE, useWeightedZone |-> TRUE, useTrendConfirmation |-> TRUE]

\* lines 147-165: the recommendation for the item, from the replay so far
Recommend(fr, historyForCalc, rawItem, boundToggle) ==
    CHOOSE recommendation \in
        { getRecommendation(
              trendStats, boardStats, neighbourScores,
              rawItem.num1, rawItem.num2, fr.tempAdaptiveInfluences,
              IF Len(fr.tempConfirmedWinsLog) > 0
              THEN fr.tempConfirmedWinsLog[Len(fr.tempConfirmedWinsLog)] ELSE nullNumber,
              SIM_TOGGLES.useProximityBoost, SIM_TOGGLES.useWeightedZone,
              SIM_TOGGLES.useTrendConfirmation, boundToggle) :
            trendStats \in { calculateTrendStats(historyForCalc, allPredictionTypes) },
            boardStats \in { getBoardStateStats(historyForCalc,
                                                GeneNumber(fr.individual, "decayFactor"),
                                                allPredictionTypes) },
            neighbourScores \in { runNeighbourAnalysis(historyForCalc,
                                                       GeneNumber(fr.individual, "decayFactor"),
                                                       TRUE) } } : TRUE

\* lines 168-169: the item with the recommendation noted on it
Advised(item, bestCandidate) ==
    Assign(item,
           [ recommendedGroupId    |-> IF bestCandidate # nullObject
                                       THEN bestCandidate.type ELSE null,
             recommendationDetails |-> IF bestCandidate # nullObject
                                       THEN bestCandidate.details ELSE nullObject ])

\* simItem.hitTypes.includes(simItem.recommendedGroupId), lines 177 and 190
WasSuccess(simItem) == simItem.recommendedGroupId \in Elements(simItem.hitTypes)

\* every replayed item counted, recommended or not
HasRecommendationAlways(simItem) == TRUE

\* if (simItem.recommendedGroupId), line 176
HasRecommendation(simItem) == simItem.recommendedGroupId # null

\* lines 176-201: the counters, the influences and the logs after the item
Tally(fr, copy, simItem) ==
    [ frame |->
        [ fr EXCEPT
            !.position = @ + 1,
            !.wins   = IF HasRecommendation(simItem) /\ WasSuccess(simItem)
                       THEN @ + 1 ELSE @,
            !.losses = IF HasRecommendation(simItem) /\ ~WasSuccess(simItem)
                       THEN @ + 1 ELSE @,
            !.tempAdaptiveInfluences =
                IF simItem.recommendedGroupId # null
                THEN UpdatedInfluences(@, simItem.recommendationDetails.primaryDrivingFactor,
                                       WasSuccess(simItem), fr.individual)
                ELSE @,
            !.simulatedHistory = Append(@, copy.ref),
            !.tempConfirmedWinsLog =
                IF simItem.winningNumber # nullNumber THEN Append(@, simItem.winningNumber)
                ELSE @ ],
      objects |-> [copy.objects EXCEPT ![copy.ref] = simItem] ]

\* lines 167-201, the recommendation made and the copy of the item created
Simulate(fr, copy, winningNumber, recommendation) ==
    Tally(fr, copy,
          evaluateCalculationStatus(Advised(copy.objects[copy.ref], recommendation.bestCandidate),
                                    winningNumber, TRUE))

\* no record passed over, resolved or not
UnresolvedNever(rawItem) == FALSE

\* line 144, if (rawItem.winningNumber === null) continue
Unresolved(rawItem) == rawItem.winningNumber = nullNumber

\* lines 138-202: one pass of the loop, for the item after position.  boundToggle
\* is the useDynamicTerminalNeighbourCount the payload binds for getRecommendation.
ReplayItem(fr, objs, running, boundToggle) ==
    IF ~running THEN [frame |-> [fr EXCEPT !.result = Zero], objects |-> objs]
    ELSE IF Unresolved(objs[fr.sortedHistory[fr.position + 1]])
    THEN [frame |-> [fr EXCEPT !.position = @ + 1], objects |-> objs]
    ELSE CHOOSE after \in
             { Simulate(fr, SpreadCopy(objs, fr.sortedHistory[fr.position + 1]),
                        objs[fr.sortedHistory[fr.position + 1]].winningNumber, recommendation) :
                 recommendation \in
                     { Recommend(fr, Table([ i \in DOMAIN fr.simulatedHistory |->
                                               objs[fr.simulatedHistory[i]] ]),
                                 objs[fr.sortedHistory[fr.position + 1]], boundToggle) } } : TRUE

\* the value the call returns: 0 from the loop, or lines 204-208 after it
ReturnValue(fr) == IF fr.result # nullObject THEN fr.result ELSE FitnessValue(fr.wins, fr.losses)

\* the call has left its loop
LoopOver(fr) == fr.result # nullObject \/ fr.position = Len(fr.sortedHistory)

RECURSIVE ReplayFrom(_, _, _, _)
ReplayAfter(after, running, boundToggle) ==
    ReplayFrom(after.frame, after.objects, running, boundToggle)

\* the value the call returns when it goes on from these locals
ReplayFrom(fr, objs, running, boundToggle) ==
    IF LoopOver(fr) THEN ReturnValue(fr)
    ELSE CHOOSE value \in { ReplayAfter(after, running, boundToggle) :
                               after \in { ReplayItem(fr, objs, running, boundToggle) } } : TRUE

\* calculateFitness(individual) for the array historyData and the objects it names
FitnessOf(individual, array, objs, running, boundToggle) ==
    ReplayFrom(EnterFitness(<<>>, individual, array, objs), objs, running, boundToggle)

-----------------------------------------------------------------------------
(* The replay on its own: calls of calculateFitness, as runEvolution makes them
   while a run is in progress, for sample individuals and sample histories *)

\* individuals on the parameter grid, with the genes the replay reads
ReplayIndividuals ==
    { [ decayFactor |-> 7500, adaptiveSuccessRate |-> 5000, adaptiveFailureRate |-> 5000,
        minAdaptiveInfluence |-> 8000, maxAdaptiveInfluence |-> 12000 ],
      [ decayFactor |-> 7500, adaptiveSuccessRate |-> 1000, adaptiveFailureRate |-> 5000,
        minAdaptiveInfluence |-> 0, maxAdaptiveInfluence |-> 50000 ] }

\* history items as the controller supplies them: resolved and unresolved ones,
\* an unresolved one that is not the latest, and items that share an id
RecordPool ==
    { [ id |-> 1, num1 |-> 10, num2 |-> 5, difference |-> 5, winningNumber |-> 19 ],
      [ id |-> 2, num1 |-> 7,  num2 |-> 2, difference |-> 5, winningNumber |-> 4 ],
      [ id |-> 2, num1 |-> 3,  num2 |-> 1, difference |-> 2, winningNumber |-> 4 ],
      [ id |-> 1, num1 |-> 20, num2 |-> 30, difference |-> 10, winningNumber |-> nullNumber ] }

\* no call has been made yet
NoFrame == [tempAdaptiveInfluences |-> <<>>]

ReplayInit ==
    /\ mailbox = <<>>
    /\ pc = "eval"
    /\ isRunning = TRUE
    /\ generationCount = 1
    /\ historyData = 1
    /\ simulationHelpers = 1
    /\ population = <<>>
    /\ newPopulation = <<>>
    /\ evalIdx = 0
    /\ events = <<>>
    /\ replayOf = <<>>
    /\ cancelObserved = FALSE
    /\ stopPosted = FALSE
    /\ runsEnded = FALSE
    /\ stopsInARow = 0
    /\ \E n \in 0..MaxRecords :
          /\ objects \in [1..n -> RecordPool]
          /\ historyArray = [i \in 1..n |-> i]
    /\ helperToggle \in BOOLEAN
    /\ frame = NoFrame
    /\ fitnessLog = <<>>
    /\ replayPc = "out"
    /\ call = NoCall

\* runEvolution, line 230: calculateFitness is called for an individual
CallFitness ==
    /\ replayPc = "out"
    /\ Len(fitnessLog) < MaxCalls
    /\ \E individual \in ReplayIndividuals :
          frame' = EnterFitness(frame.tempAdaptiveInfluences, individual, historyArray, objects)
    /\ replayPc' = "in"
    /\ UNCHANGED <<vars_worker, historyArray, objects, helperToggle, fitnessLog, call>>

\* lines 138-202: one pass of the loop over sortedHistory
ReplayRecord ==
    /\ replayPc = "in"
    /\ ~LoopOver(frame)
    /\ \E after \in {ReplayItem(frame, objects, isRunning, helperToggle)} :
          /\ frame' = after.frame
          /\ objects' = after.objects
    /\ UNCHANGED <<vars_worker, historyArray, helperToggle, fitnessLog, replayPc, call>>

\* lines 141, 204-208: the call returns; its locals and the copies it made are
\* no longer reachable
ReturnFitness ==
    /\ replayPc = "in"
    /\ LoopOver(frame)
    /\ fitnessLog' = Append(fitnessLog, [ individual |-> frame.individual,
                                          wins       |-> frame.wins,
                                          losses     |-> frame.losses,
                                          fitness    |-> ReturnValue(frame) ])
    /\ objects' = SubSeq(objects, 1, Len(historyArray))
    /\ replayPc' = "out"
    /\ UNCHANGED <<vars_worker, historyArray, helperToggle, frame, call>>

ReplayNext == CallFitness \/ ReplayRecord \/ ReturnFitness

ReplaySpec == ReplayInit /\ [][ReplayNext]_vars

-----------------------------------------------------------------------------
(* The helpers on their own: calls of getHitZone, evaluateCalculationStatus and
   getRecommendation with sample arguments *)

\* the longest history the statistics of a sample call are computed from
MaxPrefix == 2

\* base numbers: on the wheel, at its ends, and off it on either side
SampleBases == {0 - 1, 0, 5, 26, 36, 37}

\* lists of terminals: none, one, two (one of them next to the other), three
SampleTerminals == { <<>>, <<8>>, <<8, 30>>, <<5, 19>>, <<8, 19, 33>> }

\* winning numbers: none yet, a base, a terminal, a neighbour, and another pocket
SampleWinning == {nullNumber, 5, 8, 32, 17}

\* the two numbers of a calculation; (2, 2) and (40, 40) put the base of
\* diffMinus below the wheel, (20, 30) and (40, 40) that of sumResult above it
SamplePairs == { <<10, 5>>, <<7, 2>>, <<2, 2>>, <<20, 30>>, <<40, 40>> }

\* adaptive influences a replay can hold: the seed, values after wins and
\* losses, and factors brought down to a lower bound of 0
SampleInfluences ==
    { SeedInfluences,
      << [name |-> "Hit Rate",               influence |-> Frac(4, 5)],
         [name |-> "Streak",                 influence |-> Frac(6, 5)],
         [name |-> "Proximity to Last Spin", influence |-> Frac(3, 2)],
         [name |-> "Hot Zone Weighting",     influence |-> FracOf(1)],
         [name |-> "High AI Confidence",     influence |-> FracOf(1)],
         [name |-> "Statistical Trends",     influence |-> FracOf(1)] >>,
      << [name |-> "Hit Rate",               influence |-> Zero],
         [name |-> "Streak",                 influence |-> Zero],
         [name |-> "Proximity to Last Spin", influence |-> Zero],
         [name |-> "Hot Zone Weighting",     influence |-> Zero],
         [name |-> "High AI Confidence",     influence |-> FracOf(1)],
         [name |-> "Statistical Trends",     influence |-> FracOf(1)] >> }

\* the resolved records of the pool
ResolvedRecords == { r \in RecordPool : ~Unresolved(r) }

\* records as a replay holds them in its buffer: evaluated against their winning number
EvaluatedRecords(records) ==
    [ i \in DOMAIN records |->
        evaluateCalculationStatus(Advised(records[i], nullObject), records[i].winningNumber, TRUE) ]

\* the histories of at most MaxPrefix records, in the order of their ids
SampleHistories ==
    { EvaluatedRecords(records) :
        records \in { h \in UNION { [1..n -> ResolvedRecords] : n \in 0..MaxPrefix } :
                        \A i \in 2..Len(h) : h[i - 1].id <= h[i].id } }

\* calls of getHitZone that wait to be made
HitZoneCalls ==
    { [ op |-> "getHitZone", done |-> FALSE, baseNumber |-> baseNumber, terminals |-> terminals,
        winningNumber |-> winningNumber,
        useDynamicTerminalNeighbourCountBool |-> useDynamicTerminalNeighbourCountBool ] :
        baseNumber \in SampleBases, terminals \in SampleTerminals,
        winningNumber \in SampleWinning, useDynamicTerminalNeighbourCountBool \in BOOLEAN }

\* calls of evaluateCalculationStatus that wait to be made, each for a new item
StatusCalls ==
    { [ op |-> "evaluateCalculationStatus", done |-> FALSE,
        historyItem |-> [ id |-> 1, num1 |-> pair[1], num2 |-> pair[2],
                          difference |-> Abs(pair[1] - pair[2]), winningNumber |-> nullNumber ],
        winningNumber |-> winningNumber,
        useDynamicTerminalNeighbourCountBool |-> useDynamicTerminalNeighbourCountBool ] :
        pair \in SamplePairs, winningNumber \in SampleWinning \ {nullNumber},
        useDynamicTerminalNeighbourCountBool \in BOOLEAN }

\* calls of getRecommendation that wait to be made, as calculateFitness makes
\* them (lines 148-165): for the records replayed so far, the numbers of the next
\* record, the influences, and the last winning number
RecommendationCalls ==
    { [ op |-> "getRecommendation", done |-> FALSE, history |-> history,
        inputNum1 |-> pair[1], inputNum2 |-> pair[2],
        currentAdaptiveInfluences |-> influences,
        lastWinningNumber |-> IF history = <<>> THEN nullNumber
                              ELSE history[Len(history)].winningNumber,
        useProximityBoostBool |-> boosts, useWeightedZoneBool |-> boosts,
        useTrendConfirmationBool |-> useTrendConfirmationBool,
        useDynamicTerminalNeighbourCount |-> useDynamicTerminalNeighbourCount ] :
        history \in SampleHistories, pair \in SamplePairs, influences \in SampleInfluences,
        boosts \in BOOLEAN, useTrendConfirmationBool \in BOOLEAN,
        useDynamicTerminalNeighbourCount \in BOOLEAN }

\* the call of getRecommendation made, with the statistics it was given
RecommendationMade(c, trendStats, boardStats, neighbourScores) ==
    Assign(c, [ done            |-> TRUE,
                trendStats      |-> trendStats,
                boardStats      |-> boardStats,
                neighbourScores |-> neighbourScores,
                candidates      |-> Candidates(trendStats, boardStats, neighbourScores,
                                               c.inputNum1, c.inputNum2,
                                               c.currentAdaptiveInfluences, c.lastWinningNumber,
                                               c.useProximityBoostBool, c.useWeightedZoneBool,
                                               c.useDynamicTerminalNeighbourCount),
                result          |-> getRecommendation(trendStats, boardStats, neighbourScores,
                                                      c.inputNum1, c.inputNum2,
                                                      c.currentAdaptiveInfluences,
                                                      c.lastWinningNumber,
                                                      c.useProximityBoostBool,
                                                      c.useWeightedZoneBool,
                                                      c.useTrendConfirmationBool,
                                                      c.useDynamicTerminalNeighbourCount) ])

HelperInit ==
    /\ mailbox = <<>>
    /\ pc = "idle"
    /\ isRunning = FALSE
    /\ generationCount = 0
    /\ historyData = 0
    /\ simulationHelpers = 1
    /\ population = <<>>
    /\ newPopulation = <<>>
    /\ evalIdx = 0
    /\ events = <<>>
    /\ replayOf = <<>>
    /\ cancelObserved = FALSE
    /\ stopPosted = FALSE
    /\ runsEnded = FALSE
    /\ stopsInARow = 0
    /\ historyArray = <<>>
    /\ objects = <<>>
    /\ frame = NoFrame
    /\ fitnessLog = <<>>
    /\ replayPc = "out"
    /\ helperToggle = TRUE
    /\ call \in HitZoneCalls \cup StatusCalls \cup RecommendationCalls

\* getHitZone(baseNumber, terminals, winningNumber, useDynamicTerminalNeighbourCountBool, ...)
CallGetHitZone ==
    /\ call.op = "getHitZone"
    /\ ~call.done
    /\ call' = Assign(call, [ done   |-> TRUE,
                              result |-> getHitZone(call.baseNumber, call.terminals,
                                                    call.winningNumber,
                                                    call.useDynamicTerminalNeighbourCountBool) ])
    /\ UNCHANGED <<vars_worker, historyArray, objects, frame, fitnessLog, replayPc, helperToggle>>

\* evaluateCalculationStatus(historyItem, winningNumber, useDynamicTerminalNeighbourCountBool, ...)
CallEvaluateCalculationStatus ==
    /\ call.op = "evaluateCalculationStatus"
    /\ ~call.done
    /\ call' = Assign(call, [ done   |-> TRUE,
                              result |-> evaluateCalculationStatus(
                                             call.historyItem, call.winningNumber,
                                             call.useDynamicTerminalNeighbourCountBool) ])
    /\ UNCHANGED <<vars_worker, historyArray, objects, frame, fitnessLog, replayPc, helperToggle>>

\* getRecommendation(...) with the statistics of the history, lines 148-165
CallGetRecommendation ==
    /\ call.op = "getRecommendation"
    /\ ~call.done
    /\ \E trendStats \in { calculateTrendStats(call.history, allPredictionTypes) },
          boardStats \in { getBoardStateStats(call.history, Frac(3, 4), allPredictionTypes) },
          neighbourScores \in { runNeighbourAnalysis(call.history, Frac(3, 4), TRUE) } :
          call' = RecommendationMade(call, trendStats, boardStats, neighbourScores)
    /\ UNCHANGED <<vars_worker, historyArray, objects, frame, fitnessLog, replayPc, helperToggle>>

HelperNext == CallGetHitZone \/ CallEvaluateCalculationStatus \/ CallGetRecommendation

HelperSpec == HelperInit /\ [][HelperNext]_vars

-----------------------------------------------------------------------------
(* Breeding on its own, lines 256-283: the individuals are objects, named by
   their place in objects; the members of a population hold these names *)

\* the fitness values the members of a ranked population have
SampleFitness == { FitnessValue(outcome[1], outcome[2]) : outcome \in ReplayOutcomes }

\* the child handed over is the parent itself
ClonedAliased(objs, ref) == [objects |-> objs, ref |-> ref]

\* line 276, child = { ...parent1.individual }: a new object with the parent's genes
Cloned(objs, ref) == [objects |-> Append(objs, objs[ref]), ref |-> Len(objs) + 1]

\* crossover, lines 50-57: const child = {} is a new object; every child of the two
crossoverAt(objs, ref1, ref2) ==
    { [objects |-> Append(objs, child), ref |-> Len(objs) + 1] :
        child \in crossover(objs[ref1], objs[ref2]) }

\* mutate, lines 60-70: the genes are assigned on the object given, which is returned
mutateAt(built) ==
    { [objects |-> [built.objects EXCEPT ![built.ref] = mutated], ref |-> built.ref] :
        mutated \in mutate(built.objects[built.ref]) }

\* lines 269-279: every child one turn of the breeding loop may build, with the
\* objects as the turn leaves them
Children(pop, objs) ==
    UNION { UNION { mutateAt(built) :
                      built \in crossoverAt(objs, parents[1].individual, parents[2].individual)
                                 \cup {Cloned(objs, parents[1].individual)} }
            : parents \in selectParent(pop) \X selectParent(pop) }

\* the population after the sort of line 242: distinct individuals, fitness in
\* descending order
BreedInit ==
    /\ mailbox = <<>>
    /\ pc = "elite"
    /\ isRunning = TRUE
    /\ generationCount = 1
    /\ historyData = 1
    /\ simulationHelpers = 1
    /\ evalIdx = populationSize + 1
    /\ events = <<>>
    /\ replayOf = <<>>
    /\ cancelObserved = FALSE
    /\ stopPosted = FALSE
    /\ runsEnded = FALSE
    /\ stopsInARow = 0
    /\ historyArray = <<>>
    /\ frame = NoFrame
    /\ fitnessLog = <<>>
    /\ replayPc = "out"
    /\ helperToggle = TRUE
    /\ call = NoCall
    /\ objects \in [1..populationSize -> createIndividual]
    /\ \E fitness \in [1..populationSize -> SampleFitness] :
          /\ \A i \in 2..populationSize : ~FitnessGreater(fitness[i], fitness[i - 1])
          /\ population = [i \in 1..populationSize |-> [individual |-> i, fitness |-> fitness[i]]]
    /\ newPopulation = <<>>

\* lines 256-261: newPopulation.push(population[i]) for the elites, as they are
KeepElites ==
    /\ pc = "elite"
    /\ newPopulation' = Elites(population)
    /\ pc' = "breed"
    /\ UNCHANGED <<mailbox, isRunning, generationCount, historyData, simulationHelpers,
                   population, evalIdx, events, replayOf, cancelObserved, stopPosted, runsEnded,
                   stopsInARow, historyArray, objects, frame, fitnessLog, replayPc,
                   helperToggle, call>>

\* one turn of the loop of lines 264-281, the flag being set
BreedChild ==
    /\ pc = "breed"
    /\ Len(newPopulation) < populationSize
    /\ isRunning
    /\ \E bred \in Children(population, objects) :
          /\ objects' = bred.objects
          /\ newPopulation' = Append(newPopulation, [individual |-> bred.ref, fitness |-> Zero])
    /\ UNCHANGED <<mailbox, pc, isRunning, generationCount, historyData, simulationHelpers,
                   population, evalIdx, events, replayOf, cancelObserved, stopPosted, runsEnded,
                   stopsInARow, historyArray, frame, fitnessLog, replayPc, helperToggle, call>>

\* line 283, population = newPopulation
SwapBred ==
    /\ pc = "breed"
    /\ Len(newPopulation) >= populationSize
    /\ population' = newPopulation
    /\ newPopulation' = <<>>
    /\ pc' = "loop"
    /\ UNCHANGED <<mailbox, isRunning, generationCount, historyData, simulationHelpers,
                   evalIdx, events, replayOf, cancelObserved, stopPosted, runsEnded,
                   stopsInARow, historyArray, objects, frame, fitnessLog, replayPc,
                   helperToggle, call>>

BreedNext == KeepElites \/ BreedChild \/ SwapBred

BreedSpec == BreedInit /\ [][BreedNext]_vars

-----------------------------------------------------------------------------
(* What a run has posted *)

Count(type) == Cardinality({ i \in DOMAIN events : events[i].type = type })

LastEvent == events[Len(events)]

\* the worker is back in the event loop after a run that posted 'complete'
RunCompleted ==
    /\ pc = "idle"
    /\ ~isRunning
    /\ generationCount = maxGenerations
    /\ Len(events) = maxGenerations + 1
    /\ \A i \in 1..maxGenerations : events[i].type = "progress"
    /\ LastEvent.type = "complete"

\* the step that handles a queued message of this kind
Handles(type) ==
    /\ pc = "idle"
    /\ mailbox # <<>>
    /\ Head(mailbox).type = type
    /\ mailbox' = Tail(mailbox)

-----------------------------------------------------------------------------
(* C1..C10: the run controller and the message protocol *)

\* C1: a stop sent to the worker while a run is in progress (after its start was
\* accepted, before its terminal event) makes that run post exactly one 'stopped'
\* and no 'complete'.  The handler of 'stop' cannot run before runEvolution has
\* returned, so the statement is made of the stop's posting: once the run is over,
\* a stop posted during it has had this effect.
C1_StopDuringRunStopsIt ==
    (pc = "idle" /\ stopPosted) => (Count("stopped") = 1 /\ Count("complete") = 0)

\* C2: in one run 'complete' and 'stopped' are never both posted, and neither is
\* posted more than once, wherever the stop messages fall.
C2_OneTerminalEvent ==
    /\ Count("complete") + Count("stopped") <= 1
    /\ \A i \in DOMAIN events : events[i].type # "progress" => i = Len(events)

C2_Witness ==
    /\ pc = "idle"
    /\ stopPosted
    /\ Count("complete") = 1
    /\ Count("stopped") = 0

\* C3: 'complete' is posted only on natural termination: the run has posted
\* exactly maxGenerations progress events before it, no cancellation check of the
\* run has failed, and the event's generation is maxGenerations.
C3_CompleteOnlyWhenExhausted ==
    \A i \in DOMAIN events :
        events[i].type = "complete" =>
            /\ i = maxGenerations + 1
            /\ \A j \in 1..(i - 1) : events[j].type = "progress"
            /\ ~cancelObserved
            /\ events[i].generation = maxGenerations

C3_Witness ==
    /\ Len(events) = maxGenerations + 1
    /\ LastEvent.type = "complete"
    /\ LastEvent.generation = maxGenerations
    /\ Count("progress") = maxGenerations

\* C4: a started run in which no stop is handled terminates: it evaluates
\* maxGenerations generations, posts 'complete' once and the worker is idle again
\* with the flag cleared.
C4_RunTerminates ==
    (pc = "loop" /\ generationCount = 0) ~> RunCompleted

C4_Witness ==
    /\ RunCompleted
    /\ ~stopPosted
    /\ stopsInARow = 0
    /\ Count("complete") = 1

\* C5: a start sent while a run is active is a no-op: history, helper table,
\* population and generation counter stay as they are, no event is posted for it
\* and no second evolution loop begins.  The handler cannot run before the active
\* run has returned, so the statement is made of the step that handles a start
\* posted during a run.
C5_StartDuringRunIsNoOp ==
    [][ (Handles("start") /\ Head(mailbox).duringRun) => UNCHANGED workerVars ]_vars

\* C7: the k-th progress event of a run has generation k and processedCount
\* k * populationSize, k never exceeds maxGenerations, and one progress event has
\* been posted for every generation whose evaluation has finished.
C7_ProgressPerGeneration ==
    /\ \A k \in DOMAIN events :
          events[k].type = "progress" =>
              /\ events[k].generation = k
              /\ events[k].processedCount = k * populationSize
              /\ k <= maxGenerations
    /\ pc \in {"breed", "loop", "finish"} => Count("progress") = generationCount
    /\ pc = "eval" => Count("progress") = generationCount - 1

C7_Witness ==
    /\ pc = "breed"
    /\ generationCount = maxGenerations
    /\ LastEvent.type = "progress"
    /\ LastEvent.generation = maxGenerations
    /\ LastEvent.processedCount = maxGenerations * populationSize

\* C8: 'complete' reports the same bestIndividual and bestFitness as the last
\* progress event (generation maxGenerations), although it is read from the
\* population of elites and unevaluated offspring.
C8_CompleteReportsLastBest ==
    \A i \in DOMAIN events :
        events[i].type = "complete" =>
            /\ i > 1
            /\ events[i - 1].type = "progress"
            /\ events[i - 1].generation = maxGenerations
            /\ events[i].bestIndividual = events[i - 1].bestIndividual
            /\ events[i].bestFitness = events[i - 1].bestFitness

C8_Witness ==
    /\ pc = "idle"
    /\ events # <<>>
    /\ LastEvent.type = "complete"
    /\ LastEvent.bestFitness > 0
    /\ LastEvent.bestFitness = events[Len(events) - 1].bestFitness

\* C9: after a run has ended a later start is accepted and begins a new run from
\* nothing: the generation counter is 0 again, populationSize fresh individuals
\* with fitness 0 are seeded, the history is the one of the new payload, and the
\* first progress event of the new run has generation 1.
C9_RestartFromScratch ==
    /\ [][ (Handles("start") /\ runsEnded) =>
              /\ pc' = "loop"
              /\ isRunning'
              /\ generationCount' = 0
              /\ historyData' = Head(mailbox).payload
              /\ Len(population') = populationSize
              /\ \A i \in DOMAIN population' :
                    /\ population'[i].individual \in createIndividual
                    /\ population'[i].fitness = Zero
              /\ events' = <<>> ]_vars
    /\ []( (runsEnded /\ events # <<>>) =>
              (events[1].type = "progress" /\ events[1].generation = 1) )

C9_Witness ==
    /\ runsEnded
    /\ pc = "breed"
    /\ generationCount = 1
    /\ Len(events) = 1
    /\ events[1].generation = 1

\* C10: handling stop only clears the flag: nothing else of the worker changes and
\* no event is posted; a stop handled when the flag is already clear (a second
\* stop, or a stop with no run active) leaves the worker exactly as it was.
C10_StopOnlyClearsFlag ==
    [][ Handles("stop") =>
           /\ isRunning' = FALSE
           /\ UNCHANGED <<pc, generationCount, historyData, simulationHelpers, population,
                          newPopulation, evalIdx, events, replayOf>>
           /\ (~isRunning => UNCHANGED workerVars) ]_vars

C10_Witness ==
    /\ stopsInARow = 2
    /\ pc = "idle"
    /\ ~isRunning

-----------------------------------------------------------------------------
(* C11..C13: the population from one generation to the next *)

C12_PopulationSizeConstant ==
    pc \in {"loop", "eval", "breed", "finish"} => Len(population) = populationSize

C12_Witness ==
    /\ pc = "finish"
    /\ generationCount = maxGenerations
    /\ Count("progress") = maxGenerations
    /\ Len(population) = populationSize

\* C13: at every point of a run every gene of every individual (of the population,
\* of the generation being bred, of a report) equals min + k * step of its
\* parameter for an integer k with 0 <= k <= (max - min) / step.
C13_GenesOnGrid ==
    /\ \A i \in DOMAIN population :
          \A key \in Genes : OnGrid(key, population[i].individual[key])
    /\ \A i \in DOMAIN newPopulation :
          \A key \in Genes : OnGrid(key, newPopulation[i].individual[key])
    /\ \A i \in DOMAIN events :
          events[i].type \in {"progress", "complete"} =>
              \A key \in Genes : OnGrid(key, events[i].bestIndividual[key])

-----------------------------------------------------------------------------
(* C14..C20: one fitness evaluation, and one after another *)

\* the resolved items among the first n of a sequence of references
ResolvedIn(refs, n) ==
    { i \in 1..n : objects[refs[i]].winningNumber # nullNumber }

\* the replayed items for which getRecommendation returned a candidate
RecommendedSoFar ==
    { i \in DOMAIN frame.simulatedHistory :
        objects[frame.simulatedHistory[i]].recommendedGroupId # null }

\* C14: the fitness a replay returns is wins/losses when losses > 0, wins*10 when
\* losses = 0 and wins > 0, and 0 when wins = losses = 0; against an empty
\* history it is 0; it is always a number (no division by zero).
C14_FitnessFormula ==
    \A i \in DOMAIN fitnessLog :
        /\ fitnessLog[i].fitness.den > 0
        /\ fitnessLog[i].losses > 0 =>
              fitnessLog[i].fitness.num * fitnessLog[i].losses
                  = fitnessLog[i].wins * fitnessLog[i].fitness.den
        /\ (fitnessLog[i].losses = 0 /\ fitnessLog[i].wins > 0) =>
              fitnessLog[i].fitness = FracOf(fitnessLog[i].wins * 10)
        /\ (fitnessLog[i].losses = 0 /\ fitnessLog[i].wins = 0) =>
              fitnessLog[i].fitness = Zero
        /\ historyArray = <<>> => fitnessLog[i].fitness = Zero

\* one history has given one individual a ratio of wins to losses and another
\* individual losses only
C14_Witness ==
    /\ Len(fitnessLog) = 2
    /\ fitnessLog[1].wins > 0
    /\ fitnessLog[1].losses > 0
    /\ fitnessLog[2].wins = 0
    /\ fitnessLog[2].losses > 0
    /\ fitnessLog[2].fitness # fitnessLog[1].fitness

\* C15: at every step of a fitness evaluation wins + losses is at most the number
\* of resolved records replayed so far for which a recommendation was returned,
\* and so at most the number of resolved records of the history.
C15_TallyBounded ==
    replayPc = "in" =>
        /\ frame.wins + frame.losses <= Cardinality(RecommendedSoFar)
        /\ Cardinality(RecommendedSoFar)
              <= Cardinality(ResolvedIn(frame.sortedHistory, frame.position))
        /\ Cardinality(ResolvedIn(frame.sortedHistory, frame.position))
              <= Cardinality(ResolvedIn(historyArray, Len(historyArray)))

\* a replay has passed three records: one unresolved, one resolved without a
\* recommendation (the first replayed), and one recommended and counted
C15_Witness ==
    /\ replayPc = "in"
    /\ frame.position = 3
    /\ Cardinality(ResolvedIn(frame.sortedHistory, 3)) = 2
    /\ Cardinality(RecommendedSoFar) = 1
    /\ frame.wins + frame.losses = 1

\* C16: at every step of every fitness evaluation every adaptive influence,
\* the seed 1.0 included, lies within [minAdaptiveInfluence, maxAdaptiveInfluence]
\* of the individual evaluated.
C16_InfluencesWithinBounds ==
    replayPc = "in" =>
        \A i \in DOMAIN frame.tempAdaptiveInfluences :
            /\ ~FracLess(frame.tempAdaptiveInfluences[i].influence,
                         GeneNumber(frame.individual, "minAdaptiveInfluence"))
            /\ ~FracLess(GeneNumber(frame.individual, "maxAdaptiveInfluence"),
                         frame.tempAdaptiveInfluences[i].influence)

\* an update was cut off at the upper bound: 1.0 plus the success rate is above it
C16_Witness ==
    /\ replayPc = "in"
    /\ frame.wins > 0
    /\ FracLess(GeneNumber(frame.individual, "maxAdaptiveInfluence"),
                FracAdd(FracOf(1), GeneNumber(frame.individual, "adaptiveSuccessRate")))
    /\ \E i \in DOMAIN frame.tempAdaptiveInfluences :
          frame.tempAdaptiveInfluences[i].influence
              = GeneNumber(frame.individual, "maxAdaptiveInfluence")

\* the history array in another order
Shuffled(array, p) == [i \in DOMAIN array |-> array[p[i]]]

\* C17: the fitness of an individual is the same for every permutation of the
\* supplied history array.
C17_OrderIndependent ==
    (replayPc = "out" /\ fitnessLog # <<>>) =>
        \A p \in Permutations(DOMAIN historyArray) :
            FitnessOf(fitnessLog[Len(fitnessLog)].individual, Shuffled(historyArray, p),
                      objects, isRunning, helperToggle)
                = fitnessLog[Len(fitnessLog)].fitness

\* C18: evaluating the same individual twice against the same history gives the
\* same fitness, whatever was evaluated in between.
C18_SameFitnessAgain ==
    \A i, j \in DOMAIN fitnessLog :
        fitnessLog[i].individual = fitnessLog[j].individual =>
            fitnessLog[i].fitness = fitnessLog[j].fitness

\* the same individual evaluated first and third, another one in between with
\* another fitness, and the call before the third left influences off their seed
C18_Witness ==
    /\ Len(fitnessLog) = 3
    /\ fitnessLog[1].individual = fitnessLog[3].individual
    /\ fitnessLog[2].individual # fitnessLog[1].individual
    /\ fitnessLog[2].fitness # fitnessLog[1].fitness
    /\ fitnessLog[1].wins + fitnessLog[1].losses >= 2

\* C19: a fitness evaluation never modifies the history it was given: the array
\* keeps its order and every record keeps every field.
C19_HistoryUntouched ==
    [][ /\ historyArray' = historyArray
        /\ \A r \in DOMAIN historyArray :
              /\ r \in DOMAIN objects'
              /\ objects'[r] = objects[r] ]_vars

\* a replay has written hitTypes, status and the recommendation on its copy of
\* a record that the array, given in another order than by id, still holds as supplied
C19_Witness ==
    /\ replayPc = "in"
    /\ Len(objects) > Len(historyArray)
    /\ "hitTypes" \in DOMAIN objects[Len(objects)]
    /\ objects[Len(objects)].recommendedGroupId # null
    /\ \A r \in DOMAIN historyArray : "hitTypes" \notin DOMAIN objects[r]
    /\ \E r \in 2..Len(historyArray) : objects[r].id < objects[r - 1].id

-----------------------------------------------------------------------------
(* C21..C22: the evolution loop *)

\* C21: for every sequence of start and stop messages at most one evolution loop
\* is executing at any time: a message is handled only when no loop is executing,
\* and a start that is accepted begins its loop from scratch (the loop of the run
\* before it has returned and its population is gone), so no earlier run goes on
\* evaluating or breeding.
C21_OneLoopAtATime ==
    [][ /\ (mailbox # <<>> /\ mailbox' = Tail(mailbox)) => (pc = "idle" /\ population = <<>> /\ newPopulation = <<>>)
        /\ (mailbox # <<>> /\ mailbox' = Tail(mailbox) /\ pc' # "idle") =>
              /\ Head(mailbox).type = "start"
              /\ ~isRunning
              /\ pc' = "loop"
              /\ generationCount' = 0
              /\ events' = <<>>
              /\ Len(population') = populationSize
              /\ \A i \in DOMAIN population' : population'[i].fitness = Zero ]_vars

\* a run was told to stop while it was executing and has returned, the stop has
\* been handled, and a start is the next message
C21_Witness ==
    /\ pc = "idle"
    /\ stopPosted
    /\ stopsInARow = 1
    /\ runsEnded
    /\ ~isRunning
    /\ mailbox # <<>>
    /\ Head(mailbox).type = "start"

\* C22: in every generation the fitness of every member of the population, the
\* elites carried over included, is computed in that generation before the sort:
\* at the sort, and from the progress report on, every fitness was assigned in
\* the generation being reported and is the value calculateFitness gives.
C22_FitnessRecomputed ==
    ((pc = "eval" /\ evalIdx > Len(population)) \/ pc = "breed") =>
        /\ \A i \in DOMAIN population :
              /\ population[i].computedIn = generationCount
              /\ population[i].fitness
                    = calculateFitness(population[i].individual, TRUE, replayOf)
        /\ pc = "breed" =>
              /\ LastEvent.type = "progress"
              /\ LastEvent.generation = generationCount
              /\ LastEvent.bestFitness = toFixed3(population[1].fitness)

\* the second generation has been ranked and reported: its best member is the
\* elite that the first generation reported, evaluated again
C22_Witness ==
    /\ pc = "breed"
    /\ generationCount = 2
    /\ Len(events) = 2
    /\ events[1].bestIndividual = population[1].individual
    /\ FitnessGreater(population[1].fitness, Zero)
    /\ population[1].computedIn = 2

-----------------------------------------------------------------------------
(* C23..C24: one step of the replay *)

\* the place in refs of the k-th resolved item among the first n
NthResolved(refs, n, k) ==
    CHOOSE j \in ResolvedIn(refs, n) : Cardinality(ResolvedIn(refs, j)) = k

\* C23: at each replay step the buffer the statistics for the oracle are computed
\* from holds exactly the resolved records that precede the current record in id
\* order, in that order; the current and later records are not in it; an
\* unresolved record is never appended to the buffer, never scored and never
\* counted in wins or losses.
C23_OnlyEarlierResolved ==
    replayPc = "in" =>
        /\ Len(frame.simulatedHistory) = Cardinality(ResolvedIn(frame.sortedHistory, frame.position))
        /\ Len(frame.tempConfirmedWinsLog) = Len(frame.simulatedHistory)
        /\ frame.wins + frame.losses <= Len(frame.simulatedHistory)
        /\ \A k \in DOMAIN frame.simulatedHistory :
              /\ objects[frame.simulatedHistory[k]].winningNumber # nullNumber
              /\ "hitTypes" \in DOMAIN objects[frame.simulatedHistory[k]]
              /\ frame.tempConfirmedWinsLog[k] = objects[frame.simulatedHistory[k]].winningNumber
              /\ \A field \in {"id", "num1", "num2", "difference", "winningNumber"} :
                    objects[frame.simulatedHistory[k]][field]
                        = objects[frame.sortedHistory[NthResolved(frame.sortedHistory, frame.position, k)]][field]
              /\ frame.position < Len(frame.sortedHistory) =>
                    objects[frame.simulatedHistory[k]].id
                        <= objects[frame.sortedHistory[frame.position + 1]].id
        /\ \A j \in 1..frame.position :
              Unresolved(objects[frame.sortedHistory[j]]) =>
                  "hitTypes" \notin DOMAIN objects[frame.sortedHistory[j]]

\* an unresolved record was passed over, a resolved record after it was replayed
\* with a recommendation, and a third record is still to come
C23_Witness ==
    /\ replayPc = "in"
    /\ frame.position = 2
    /\ Len(frame.sortedHistory) = 3
    /\ Unresolved(objects[frame.sortedHistory[1]])
    /\ Len(frame.simulatedHistory) = 1
    /\ objects[frame.simulatedHistory[1]].id = objects[frame.sortedHistory[2]].id

\* the item the step has appended to the buffer
Replayed == objects'[frame'.simulatedHistory[Len(frame'.simulatedHistory)]]

\* C24: after a replay step in which a recommendation was made, only the influence
\* of the recommended candidate's primary driving factor has changed: to
\* min(maxAdaptiveInfluence, old + adaptiveSuccessRate) on a win and to
\* max(minAdaptiveInfluence, old - adaptiveFailureRate) on a loss; every other
\* factor's influence is unchanged; a step without a recommendation changes no
\* influence at all.
C24_OnlyPrimaryFactorMoves ==
    [][ (replayPc = "in" /\ replayPc' = "in" /\ frame'.position = frame.position + 1) =>
          IF /\ Len(frame'.simulatedHistory) = Len(frame.simulatedHistory) + 1
             /\ Replayed.recommendedGroupId # null
          THEN /\ Len(frame'.tempAdaptiveInfluences) = Len(frame.tempAdaptiveInfluences)
               /\ \A i \in DOMAIN frame.tempAdaptiveInfluences :
                     /\ frame'.tempAdaptiveInfluences[i].name = frame.tempAdaptiveInfluences[i].name
                     /\ frame'.tempAdaptiveInfluences[i].influence =
                           IF frame.tempAdaptiveInfluences[i].name
                                  # Replayed.recommendationDetails.primaryDrivingFactor
                           THEN frame.tempAdaptiveInfluences[i].influence
                           ELSE IF Replayed.recommendedGroupId \in Elements(Replayed.hitTypes)
                           THEN FracMin(GeneNumber(frame.individual, "maxAdaptiveInfluence"),
                                        FracAdd(frame.tempAdaptiveInfluences[i].influence,
                                                GeneNumber(frame.individual, "adaptiveSuccessRate")))
                           ELSE FracMax(GeneNumber(frame.individual, "minAdaptiveInfluence"),
                                        FracSub(frame.tempAdaptiveInfluences[i].influence,
                                                GeneNumber(frame.individual, "adaptiveFailureRate")))
               /\ \E i \in DOMAIN frame.tempAdaptiveInfluences :
                     frame.tempAdaptiveInfluences[i].name
                         = Replayed.recommendationDetails.primaryDrivingFactor
          ELSE frame'.tempAdaptiveInfluences = frame.tempAdaptiveInfluences ]_vars

\* a replay has had a win and a loss, and two factors are off their seed while
\* the others still have it
C24_Witness ==
    /\ replayPc = "in"
    /\ frame.wins > 0
    /\ frame.losses > 0
    /\ Cardinality({ i \in DOMAIN frame.tempAdaptiveInfluences :
                       frame.tempAdaptiveInfluences[i].influence # FracOf(1) }) = 2

-----------------------------------------------------------------------------
(* C25..C29: the helpers *)

\* the k nearest pockets on each side of pocket n of the wheel
Near(n, k) == { m \in 0..36 : calculatePocketDistance(m, n) \in 1..k }

\* the number of neighbours on each side of each terminal, for a call of getHitZone
TerminalReach(c) ==
    IF /\ c.useDynamicTerminalNeighbourCountBool
       /\ c.winningNumber # nullNumber
       /\ (c.winningNumber = c.baseNumber \/ c.winningNumber \in Elements(c.terminals))
    THEN 0
    ELSE IF Len(c.terminals) \in {1, 2} THEN 3 ELSE 1

\* C25: for a base in 0..36 the hit zone is exactly the base, every terminal, the
\* b nearest wheel neighbours on each side of the base (b = 3 for exactly one
\* terminal, 1 for two or more, 0 for none) and the c nearest wheel neighbours on
\* each side of each terminal (c = 3 for one or two terminals, 1 for more than
\* two), except that in dynamic mode with a known winning number equal to the base
\* or to a terminal c is 0; a base outside 0..36 gives the empty zone.
C25_HitZone ==
    (call.op = "getHitZone" /\ call.done) =>
        call.result =
            IF call.baseNumber \notin 0..36 THEN {}
            ELSE {call.baseNumber}
                 \cup Elements(call.terminals)
                 \cup Near(call.baseNumber,
                           IF Len(call.terminals) = 1 THEN 3
                           ELSE IF Len(call.terminals) >= 2 THEN 1 ELSE 0)
                 \cup UNION { Near(t, TerminalReach(call)) : t \in Elements(call.terminals) }

\* the zone of base 5 with the terminals 8 and 30 in dynamic mode when 8 has won:
\* the base, its two nearest neighbours and the terminals alone
C25_Witness ==
    /\ call.op = "getHitZone"
    /\ call.done
    /\ call.baseNumber = 5
    /\ call.terminals = <<8, 30>>
    /\ call.useDynamicTerminalNeighbourCountBool
    /\ call.winningNumber = 8
    /\ call.result = {5, 10, 24, 8, 30}

\* C26: the oracle returns a candidate if and only if at least one prediction
\* type with a base on the wheel has a final score above 0, and the candidate
\* returned then has the greatest final score of all scored candidates;
\* otherwise it returns no candidate.
C26_BestPositiveCandidate ==
    (call.op = "getRecommendation" /\ call.done) =>
        /\ \A i \in DOMAIN call.candidates :
              calculateBase(call.candidates[i].type, call.inputNum1, call.inputNum2) \in 0..36
        /\ call.result.bestCandidate # nullObject
              <=> \E i \in DOMAIN call.candidates : FracLess(Zero, call.candidates[i].score)
        /\ call.result.bestCandidate # nullObject =>
              /\ \E i \in DOMAIN call.candidates : call.candidates[i] = call.result.bestCandidate
              /\ \A i \in DOMAIN call.candidates :
                    ~FracLess(call.result.bestCandidate.score, call.candidates[i].score)

\* two candidates with scores above 0, and the second of them is returned
C26_Witness ==
    /\ call.op = "getRecommendation"
    /\ call.done
    /\ Len(call.candidates) = 2
    /\ FracLess(Zero, call.candidates[1].score)
    /\ FracLess(call.candidates[1].score, call.candidates[2].score)
    /\ call.result.bestCandidate = call.candidates[2]

\* the prediction types whose base for the two numbers is off the wheel
OffWheelTypes(num1, num2) ==
    { type \in Elements(allPredictionTypes) : calculateBase(type, num1, num2) \notin 0..36 }

\* C27: a prediction type whose base is below 0 or above 36 is never recommended
\* and never appears in a record's hit types; it is not among the candidates, so
\* the candidates and their scores are those of the other types alone; the call
\* ends with a result.
C27_OffWheelTypeSkipped ==
    /\ (call.op = "getRecommendation" /\ call.done) =>
          /\ \A i \in DOMAIN call.candidates :
                call.candidates[i].type \notin OffWheelTypes(call.inputNum1, call.inputNum2)
          /\ Len(call.candidates) + Cardinality(OffWheelTypes(call.inputNum1, call.inputNum2))
                = Len(allPredictionTypes)
          /\ call.result.bestCandidate # nullObject =>
                call.result.bestCandidate.type \notin OffWheelTypes(call.inputNum1, call.inputNum2)
          /\ call.result.signal \in {"Wait for Signal", "Wait", "Play", "Strong Play"}
    /\ (call.op = "evaluateCalculationStatus" /\ call.done) =>
          \A type \in OffWheelTypes(call.historyItem.num1, call.historyItem.num2) :
              /\ type \notin Elements(call.result.hitTypes)
              /\ ~call.result.typeSuccessStatus[type]
              /\ call.result.status \in {"success", "fail"}

\* diffMinus has succeeded in the history, so it has a streak and a hit rate, its
\* base for the two numbers is -1, and sumResult is recommended
C27_Witness ==
    /\ call.op = "getRecommendation"
    /\ call.done
    /\ calculateBase("diffMinus", call.inputNum1, call.inputNum2) < 0
    /\ call.trendStats.currentStreaks["diffMinus"] > 0
    /\ call.result.bestCandidate # nullObject
    /\ call.result.bestCandidate.type = "sumResult"

\* the influenced contribution of the i-th factor of the influence map to a candidate
Contribution(candidate, influences, i) ==
    FracMul(ScoreOf(candidate.details.individualScores, influences[i].name), influences[i].influence)

\* the sum of the contributions of the first n factors
RECURSIVE ContributionSum(_, _, _)
ContributionSum(candidate, influences, n) ==
    IF n = 0 THEN Zero
    ELSE FracAdd(ContributionSum(candidate, influences, n - 1), Contribution(candidate, influences, n))

\* the i-th factor has the largest contribution
Largest(candidate, influences, i) ==
    \A j \in DOMAIN influences :
        ~FracLess(Contribution(candidate, influences, i), Contribution(candidate, influences, j))

\* C28 as stated: a candidate's final score is the sum over all factors of the
\* influence map of raw points times influence, and its primary driving factor
\* is a factor whose influenced contribution is the largest.
C28_ScoreAndPrimaryFactor ==
    (call.op = "getRecommendation" /\ call.done) =>
        \A k \in DOMAIN call.candidates :
            /\ call.candidates[k].score
                  = ContributionSum(call.candidates[k], call.currentAdaptiveInfluences,
                                    Len(call.currentAdaptiveInfluences))
            /\ \E i \in DOMAIN call.currentAdaptiveInfluences :
                  /\ call.currentAdaptiveInfluences[i].name
                        = call.candidates[k].details.primaryDrivingFactor
                  /\ Largest(call.candidates[k], call.currentAdaptiveInfluences, i)

\* C28 as amended: a candidate's final score is the sum over all factors of the
\* influence map of raw points times influence; when some contribution is above 0
\* its primary driving factor is the first factor of the map whose contribution
\* is the largest, and when none is it is "N/A".
C28_ScoreAndPrimaryFactorOrNone ==
    (call.op = "getRecommendation" /\ call.done) =>
        \A k \in DOMAIN call.candidates :
            /\ call.candidates[k].score
                  = ContributionSum(call.candidates[k], call.currentAdaptiveInfluences,
                                    Len(call.currentAdaptiveInfluences))
            /\ call.candidates[k].details.finalScore = call.candidates[k].score
            /\ IF \E i \in DOMAIN call.currentAdaptiveInfluences :
                     FracLess(Zero, Contribution(call.candidates[k], call.currentAdaptiveInfluences, i))
               THEN \E i \in DOMAIN call.currentAdaptiveInfluences :
                       /\ call.currentAdaptiveInfluences[i].name
                             = call.candidates[k].details.primaryDrivingFactor
                       /\ Largest(call.candidates[k], call.currentAdaptiveInfluences, i)
                       /\ \A j \in 1..(i - 1) :
                             ~Largest(call.candidates[k], call.currentAdaptiveInfluences, j)
               ELSE call.candidates[k].details.primaryDrivingFactor = "N/A"

\* one candidate without a contribution above 0, and one with a primary driving
\* factor and a score that is not the sum of its raw points
C28_Witness ==
    /\ call.op = "getRecommendation"
    /\ call.done
    /\ Len(call.candidates) = 2
    /\ \E k \in 1..2 : call.candidates[k].details.primaryDrivingFactor = "N/A"
    /\ \E k \in 1..2 :
          /\ call.candidates[k].details.primaryDrivingFactor # "N/A"
          /\ call.candidates[k].score # ContributionSum(call.candidates[k], SeedInfluences, Len(SeedInfluences))

\* C29: trend-confirmation gating has no effect on the candidate returned: for the
\* same inputs the oracle returns the same best candidate with the gate enabled
\* as with it disabled; the gate changes the signal only.
C29_GateKeepsCandidate ==
    (call.op = "getRecommendation" /\ call.done) =>
        getRecommendation(call.trendStats, call.boardStats, call.neighbourScores,
                          call.inputNum1, call.inputNum2, call.currentAdaptiveInfluences,
                          call.lastWinningNumber, call.useProximityBoostBool,
                          call.useWeightedZoneBool, ~call.useTrendConfirmationBool,
                          call.useDynamicTerminalNeighbourCount).bestCandidate
            = call.result.bestCandidate

\* the gate is enabled, the last success was not of the type of the best
\* candidate, the signal is to wait, and the candidate is returned all the same
C29_Witness ==
    /\ call.op = "getRecommendation"
    /\ call.done
    /\ call.useTrendConfirmationBool
    /\ call.result.signal = "Wait"
    /\ call.result.bestCandidate # nullObject
    /\ call.result.bestCandidate.type \notin Elements(call.trendStats.lastSuccessState)

-----------------------------------------------------------------------------
(* C30: breeding *)

\* C30: breeding never modifies a member of the current population: every
\* individual of the population has after a step of the breeding the genes it had
\* before, the members pushed as elites included; the child a turn of the
\* breeding loop pushes is a new object, which no member of the population and no
\* earlier child is.
C30_PopulationUntouched ==
    [][ (pc = "elite" \/ pc = "breed") =>
          /\ \A i \in DOMAIN population :
                /\ population[i].individual \in DOMAIN objects'
                /\ objects'[population[i].individual] = objects[population[i].individual]
          /\ \A i \in DOMAIN newPopulation :
                objects'[newPopulation[i].individual] = objects[newPopulation[i].individual]
          /\ (pc = "breed" /\ Len(newPopulation') > Len(newPopulation)) =>
                /\ population' = population
                /\ SubSeq(newPopulation', 1, Len(newPopulation)) = newPopulation
                /\ newPopulation'[Len(newPopulation')].individual \notin DOMAIN objects
                /\ newPopulation'[Len(newPopulation')].individual \in DOMAIN objects' ]_vars

\* a child with a gene no member of the population has: it was mutated, and the
\* members still have theirs
C30_Witness ==
    /\ pc = "breed"
    /\ Len(newPopulation) = populationSize
    /\ \A i \in DOMAIN population : objects[population[i].individual].decayFactor = 7000
    /\ objects[newPopulation[populationSize].individual].decayFactor = 10000
    /\ newPopulation[1] = population[1]

-----------------------------------------------------------------------------
(* C31..C34 *)

\* C31: within one run the best fitness reported by successive progress events
\* never decreases: the best fitness of generation g+1 is at least that of
\* generation g.
C31_BestFitnessNeverDecreases ==
    \A k \in DOMAIN events :
        (k > 1 /\ events[k].type = "progress" /\ events[k - 1].type = "progress") =>
            /\ events[k].generation = events[k - 1].generation + 1
            /\ events[k].bestFitness >= events[k - 1].bestFitness

\* the second generation has reported a better individual than the first, bred
\* in between, and the elite of the first generation is still in the population
C31_Witness ==
    /\ pc = "breed"
    /\ Len(events) = 2
    /\ events[2].bestFitness > events[1].bestFitness
    /\ events[2].bestIndividual # events[1].bestIndividual
    /\ \E i \in DOMAIN population : population[i].individual = events[1].bestIndividual

\* C33: whether the winning number lies in the hit zone of a prediction type is
\* the same with dynamic terminal-neighbour mode on as with it off, for every
\* base, terminal list and winning number; so the hit types of a record, its
\* status and the success of each type do not depend on that toggle.
C33_HitSameInBothModes ==
    /\ (call.op = "getHitZone" /\ call.done) =>
          \A winningNumber \in 0..36 :
              winningNumber \in getHitZone(call.baseNumber, call.terminals, winningNumber, TRUE)
                  <=> winningNumber \in getHitZone(call.baseNumber, call.terminals, winningNumber, FALSE)
    /\ (call.op = "getHitZone" /\ call.done /\ call.winningNumber # nullNumber) =>
          (call.winningNumber \in call.result
              <=> call.winningNumber \in getHitZone(call.baseNumber, call.terminals, call.winningNumber,
                                                    ~call.useDynamicTerminalNeighbourCountBool))
    /\ (call.op = "evaluateCalculationStatus" /\ call.done) =>
          \A other \in { evaluateCalculationStatus(call.historyItem, call.winningNumber,
                                                   ~call.useDynamicTerminalNeighbourCountBool) } :
              /\ other.hitTypes = call.result.hitTypes
              /\ other.typeSuccessStatus = call.result.typeSuccessStatus
              /\ other.status = call.result.status

\* a record evaluated in dynamic mode whose winning number is a terminal of the
\* base of sumResult: the zone is narrower than in the other mode, and the type
\* is a hit all the same
C33_Witness ==
    /\ call.op = "evaluateCalculationStatus"
    /\ call.done
    /\ call.useDynamicTerminalNeighbourCountBool
    /\ call.winningNumber \in Elements(TerminalsOf(calculateBase("sumResult", call.historyItem.num1, call.historyItem.num2)))
    /\ "sumResult" \in Elements(call.result.hitTypes)
    /\ ZoneOfType("sumResult", call.historyItem.num1, call.historyItem.num2, call.winningNumber, TRUE)
          # ZoneOfType("sumResult", call.historyItem.num1, call.historyItem.num2, call.winningNumber, FALSE)

\* the names of the factors of an influence map, in the order of its keys
FactorNames(influences) == [i \in DOMAIN influences |-> influences[i].name]

\* C34: whenever the oracle returns a candidate in a replay, the candidate's
\* primary driving factor is a key of the influence map the oracle was given and
\* its influenced contribution is above 0 (it is never "N/A"); the factor names
\* of the influence map are at every step of a replay those it started with.
C34_PrimaryFactorIsAKey ==
    [][ (replayPc' = "in" /\ frame'.position > 0) =>
          /\ FactorNames(frame'.tempAdaptiveInfluences) = FactorNames(SeedInfluences)
          /\ (/\ replayPc = "in"
              /\ Len(frame'.simulatedHistory) = Len(frame.simulatedHistory) + 1
              /\ Replayed.recommendedGroupId # null) =>
                /\ Replayed.recommendationDetails.primaryDrivingFactor # "N/A"
                /\ \E i \in DOMAIN frame.tempAdaptiveInfluences :
                      /\ frame.tempAdaptiveInfluences[i].name
                            = Replayed.recommendationDetails.primaryDrivingFactor
                      /\ FracLess(Zero,
                                  FracMul(ScoreOf(Replayed.recommendationDetails.individualScores,
                                                  frame.tempAdaptiveInfluences[i].name),
                                          frame.tempAdaptiveInfluences[i].influence)) ]_vars

\* a replay whose first record got no recommendation (every score 0) and whose
\* second got one, after which an influence is off its seed and the factor
\* names are those of the seed
C34_Witness ==
    /\ replayPc = "in"
    /\ Len(frame.simulatedHistory) = 2
    /\ objects[frame.simulatedHistory[1]].recommendedGroupId = null
    /\ objects[frame.simulatedHistory[2]].recommendedGroupId # null
    /\ FactorNames(frame.tempAdaptiveInfluences) = FactorNames(SeedInfluences)
    /\ frame.tempAdaptiveInfluences # SeedInfluences

====
